---- MODULE Spec2Model ----
(***************************************************************************)
(* Simulation core of the survival shooter: the enemy AI system            *)
(* (EnemyAISystem) and the enhanced collision system                       *)
(* (EnhancedCollisionSystem).                                              *)
(*                                                                         *)
(* Lengths are in thousandths of a world unit and times in milliseconds,   *)
(* so that speed * deltaTime is an integer.  Positions lie on the x axis   *)
(* (y and z equal for every body), where the distance between two points  *)
(* is the absolute difference and a normalised direction is -1, 0 or 1.    *)
(***************************************************************************)
EXTENDS Integers, Sequences, FiniteSets, TLC

\* ------------------------------------------------------------------------
\* Bounds of the model
\* ------------------------------------------------------------------------
MaxLoot == 2
StartTime == 10000
MaxTicks == 4

\* ------------------------------------------------------------------------
\* GAME_CONFIG
\* ------------------------------------------------------------------------
Unit == 10 * 100
SPAWN_THRESHOLD == 5
SPAWN_RADIUS_MIN == 15
SPAWN_RADIUS_MAX == 25
MAX_ENEMIES_PER_PLAYER == 3
PATROL_RADIUS == 10
CHASE_RADIUS == 20
ATTACK_RANGE == 8
ATTACK_DAMAGE == 15
ATTACK_COOLDOWN == 2000
HEALTH == 100
MOVEMENT_SPEED_X10 == 20
CHASE_SPEED_X10 == 35
RESPAWN_DELAY == 30000
SPAWN_CHECK_INTERVAL == 5000
MIN_SPAWN_DISTANCE == 5
MAX_SPAWN_ATTEMPTS == 10
PICKUP_RADIUS == 2
DESPAWN_TIME == 300000
CHUNK_SIZE == 32
MAX_COLLISION_ITERATIONS == 5
BOUNCE_DAMPING_X10 == 5
\* 0.01, the margin resolveCollision adds to the separation distance
SEPARATION_MARGIN == 10
\* collision radii set by updateBounds
TREE_RADIUS == (5 * 12 * Unit) \div 100
STONE_RADIUS == (8 * 8 * Unit) \div 100
ENEMY_RADIUS == Unit \div 2
LOOT_RADIUS == (3 * Unit) \div 10
DEFAULT_OBJECT_RADIUS == Unit
WALL_HALF_WIDTH == Unit

\* ------------------------------------------------------------------------
\* Inputs
\* ------------------------------------------------------------------------
PlayerIds == {"player", "p2"}
\* enemy ids, handed out in increasing order
EnemyIds == {1}
\* updatePlayerInfo arguments: <<playerId, position, health>>
PlayerInputs == { <<"player", 0, 100>>, <<"player", 0, 0>>,
                  <<"p2", -(10 * Unit), 100>> }
DamageAmounts == {0, 50, 100}
DeltaTimes == {100}
\* Date.now() moves on by RESPAWN_DELAY between two update calls, so a dead
\* enemy meets a tick exactly RESPAWN_DELAY after its death and one later
ClockSteps == {RESPAWN_DELAY}
\* cos(angle) * distance for the sampled angle pi
SpawnOffsets == {-(SPAWN_RADIUS_MIN * Unit)}
PatrolOffsets == {-((PATROL_RADIUS * Unit) \div 2)}
PickupOffsets == {0, PICKUP_RADIUS * Unit, PICKUP_RADIUS * Unit + 1}

ObjectIds == {"a", "b"}
\* the objects an owner registers: <<type, whether it carries bounds>>
ObjectKinds == {<<"tree", TRUE>>, <<"building", TRUE>>, <<"enemy", FALSE>>}
\* the places an owner puts the object with the given id
PositionsOf(id) == IF id = "a" THEN {0, 3 * CHUNK_SIZE * Unit}
                               ELSE {1200, CHUNK_SIZE * Unit}
ObjectPositions == UNION {PositionsOf(id) : id \in ObjectIds}
QueryPositions == ObjectPositions \cup {0 - 1, 200, 2 * CHUNK_SIZE * Unit}
ResolvePositions == {0, 200, 31 * Unit}
SphereRadii == {Unit \div 2}
Velocities == {0 - Unit, Unit}
ExcludeSets == {{}, {"a"}}

NULL == "null"
\* what a call returns
Void == [kind |-> "void"]
Bool(b) == [kind |-> "boolean", value |-> b]
Loot(opt) == [kind |-> "loot", value |-> opt]
\* an optional value: None, or Some(x)
None == << >>
Some(x) == <<x>>
ValueOf(opt) == opt[1]
NoTime == 0 - 1

SPAWNING == "spawning"
PATROLLING == "patrolling"
CHASING == "chasing"
ATTACKING == "attacking"
DEAD == "dead"
RESPAWNING == "respawning"
EnemyState == {SPAWNING, PATROLLING, CHASING, ATTACKING, DEAD, RESPAWNING}

VARIABLES
  now,            \* Date.now()
  enemies,        \* EnemyAISystem.enemies : id -> Enemy
  enemySeq,       \* number of enemy ids handed out so far
  players,        \* EnemyAISystem.players, in Map insertion order
  lootDrops,      \* EnemyAISystem.lootDrops : id -> LootDrop
  lootSeq,        \* number of loot ids handed out so far
  lastSpawnCheck, \* EnemyAISystem.lastSpawnCheck
  ticks,          \* number of update calls so far
  events,         \* callbacks invoked by the last call, in order
  ret,            \* the value the last call returned
  collisionObjects, \* EnhancedCollisionSystem.collisionObjects : id -> object
  spatialGrid,      \* EnhancedCollisionSystem.spatialGrid : key -> ids in Set order
  resolved,         \* the last resolveCollision call: arguments and result
  enemySystem,      \* CombatSystem.enemySystem: NULL until setEnemySystem
  fired,            \* the last fireWeapon call: arguments and result
  tools,            \* ToolSystem.tools, in Map order
  buildings,        \* BuildingSystem.buildings, in Map order
  weaponState,      \* WeaponSystem.state
  synced,           \* the last applyStateFromSync call: system, payload, outcome
  isGameActive,      \* EnemyManager: isGameActive and gameStatus = "playing"
  currentWave,       \* EnemyManager state currentWave
  waveEnemiesKilled, \* EnemyManager state waveEnemiesKilled
  waveInProgress,    \* EnemyManager state waveInProgress
  aliveEnemies,      \* number of living enemies the wave check counts
  waveTimers,        \* pending setTimeout callbacks of completeWave, oldest first
  notified,          \* addNotification calls of the last callback, in order
  updateInterval,    \* EnemyAISystem.updateInterval: the timer handle or NULL
  disposals,         \* the dispose calls so far: system, entries it found
  passed,            \* the per-enemy pass of the last update: who, seen how
  terrainHeightData, \* EnemyAISystem.terrainHeightData: rows of heights
  sampled,           \* the last getTerrainHeight call: sampler, arguments, result
  weaponTimers,      \* pending setTimeout callbacks of WeaponSystem, oldest first
  weaponCall,        \* the last WeaponSystem call: method, argument, result
  toolCall,          \* the last ToolSystem call: method, arguments, result, events
  buildCall,         \* the last BuildingSystem call: method, arguments, result
  manager,           \* MultiplayerManager: socket, isConnected, reconnectAttempts, heartbeatInterval
  network,           \* the earlier sockets, intervals and timeouts of the manager
  netCall,           \* the last event of the connection and whether it sent a message
  disconnected       \* disconnect() was called and connect() was not since

enemyVars == <<now, enemies, enemySeq, players, lootDrops, lootSeq,
               lastSpawnCheck, ticks, events, ret>>

collisionVars == <<collisionObjects, spatialGrid, resolved>>

combatVars == <<enemySystem, fired>>

syncVars == <<tools, buildings, weaponState, synced>>

waveVars == <<isGameActive, currentWave, waveEnemiesKilled, waveInProgress,
              aliveEnemies, waveTimers, notified>>

lifecycleVars == <<updateInterval, disposals>>

passVars == <<passed>>

terrainVars == <<terrainHeightData, sampled>>

netVars == <<manager, network, netCall, disconnected>>

gearVars == <<weaponTimers, weaponCall, toolCall, buildCall, netVars>>

\* what the calls of one system leave alone in the others
nonEnemyVars == <<passVars, terrainVars, gearVars, collisionVars, combatVars, syncVars, waveVars, lifecycleVars>>

nonCollisionVars == <<passVars, terrainVars, gearVars, enemyVars, combatVars, syncVars, waveVars, lifecycleVars>>

nonCombatVars == <<passVars, terrainVars, gearVars, collisionVars, syncVars, waveVars, lifecycleVars>>

nonSyncVars == <<passVars, terrainVars, gearVars, enemyVars, collisionVars, combatVars, waveVars, lifecycleVars>>

nonWaveVars == <<passVars, terrainVars, gearVars, enemyVars, collisionVars, combatVars, syncVars, lifecycleVars>>

vars == <<enemyVars, collisionVars, combatVars, syncVars, waveVars,
          lifecycleVars, passVars, terrainVars, gearVars>>

nonTerrainVars == <<enemyVars, collisionVars, combatVars, syncVars, waveVars,
                    lifecycleVars, passVars, gearVars>>

\* ------------------------------------------------------------------------
\* Vector helpers (THREE.Vector3 restricted to the x axis)
\* ------------------------------------------------------------------------
Abs(x) == IF x < 0 THEN -x ELSE x

distanceTo(a, b) == Abs(a - b)

\* Vector3.normalize: the zero vector stays the zero vector
normalize(d) == IF d > 0 THEN 1 ELSE IF d < 0 THEN -1 ELSE 0

Max(a, b) == IF a > b THEN a ELSE b
Min(a, b) == IF a < b THEN a ELSE b

\* ------------------------------------------------------------------------
\* Players map
\* ------------------------------------------------------------------------
PlayerIndex(ps, id) ==
  IF \E i \in 1..Len(ps) : ps[i].id = id
    THEN CHOOSE i \in 1..Len(ps) : ps[i].id = id
    ELSE 0

HasPlayer(ps, id) == PlayerIndex(ps, id) # 0

GetPlayer(ps, id) == ps[PlayerIndex(ps, id)]

\* Map.set keeps the position of an existing key and appends a new one
MapSetPlayer(ps, p) ==
  IF HasPlayer(ps, p.id)
    THEN [ps EXCEPT ![PlayerIndex(ps, p.id)] = p]
    ELSE Append(ps, p)

MapDeletePlayer(ps, id) ==
  SelectSeq(ps, LAMBDA p : p.id # id)

\* findNearestPlayer: the first live player at the smallest distance
findNearestPlayer(ps, position) ==
  LET live == {i \in 1..Len(ps) : ps[i].isAlive}
  IN IF live = {} THEN None
     ELSE LET best == CHOOSE i \in live :
                        \A j \in live :
                          \/ distanceTo(position, ps[i].position)
                               < distanceTo(position, ps[j].position)
                          \/ /\ distanceTo(position, ps[i].position)
                                  = distanceTo(position, ps[j].position)
                             /\ i <= j
          IN Some([player |-> ps[best],
                   distance |-> distanceTo(position, ps[best].position)])

\* ------------------------------------------------------------------------
\* Spawn positions
\* ------------------------------------------------------------------------
isValidSpawnPosition(es, ps, position) ==
  /\ \A i \in 1..Len(ps) :
       ~(distanceTo(position, ps[i].position) < MIN_SPAWN_DISTANCE * Unit)
  /\ \A id \in DOMAIN es :
       ~(distanceTo(position, es[id].position) < MIN_SPAWN_DISTANCE * Unit)

\* variant: the search goes on for one more candidate
spawnSearchDone_OneMore(i) == i > MAX_SPAWN_ATTEMPTS + 1

\* for (let i = 0; i < maxAttempts; i++), with the attempts counted from 1
spawnSearchDone(i) == i > MAX_SPAWN_ATTEMPTS

\* the loop of findSpawnPosition from attempt i on: each attempt draws a
\* candidate, a valid one (if there is any) ends the search and an invalid
\* one (if there is any) leads to the next attempt.  An outcome is
\* [pos |-> the position found or None, attempts |-> the candidates tried].
RECURSIVE SpawnSearch(_, _, _)
SpawnSearch(valid, invalid, i) ==
  IF spawnSearchDone(i) THEN {[pos |-> None, attempts |-> i - 1]}
  ELSE {[pos |-> Some(c), attempts |-> i] : c \in valid}
       \cup (IF invalid # {} THEN SpawnSearch(valid, invalid, i + 1) ELSE {})

\* the outcomes of the search near a position
spawnSearches(es, ps, nearPosition) ==
  LET candidates == {nearPosition + o : o \in SpawnOffsets}
      valid == {c \in candidates : isValidSpawnPosition(es, ps, c)}
  IN SpawnSearch(valid, candidates \ valid, 1)

\* findSpawnPosition: the first valid candidate of up to MAX_SPAWN_ATTEMPTS
\* random ones, None when every candidate drawn was invalid
findSpawnPosition(es, ps, nearPosition) ==
  { s.pos : s \in spawnSearches(es, ps, nearPosition) }

\* setRandomPatrolTarget
setRandomPatrolTarget(enemy) ==
  {[enemy EXCEPT !.patrolTarget = enemy.spawnPoint + o] : o \in PatrolOffsets}

\* ------------------------------------------------------------------------
\* Per-enemy tick.  Each operator returns the set of possible outcomes
\* [enemy |-> the enemy afterwards, ev |-> the callbacks invoked].
\* ------------------------------------------------------------------------
Out(enemy, ev) == [enemy |-> enemy, ev |-> ev]

respawnEnemy(es, ps, enemy) ==
  LET reset == [enemy EXCEPT !.health = enemy.maxHealth,
                             !.isAlive = TRUE,
                             !.state = SPAWNING,
                             !.target = None,
                             !.targetPlayerId = NULL,
                             !.deathTime = NoTime]
  IN { IF newSpawnPos = None THEN reset
       ELSE [reset EXCEPT !.position = ValueOf(newSpawnPos),
                          !.spawnPoint = ValueOf(newSpawnPos)]
       : newSpawnPos \in findSpawnPosition(es, ps, enemy.spawnPoint) }

updateSpawning(enemy) ==
  setRandomPatrolTarget([enemy EXCEPT !.state = PATROLLING])

updatePatrolling(ps, enemy, deltaTime) ==
  LET nearest == findNearestPlayer(ps, enemy.position)
      nearestPlayer == ValueOf(nearest)
      direction == enemy.patrolTarget - enemy.position
      moveDistance == (MOVEMENT_SPEED_X10 * deltaTime) \div 10
  IN IF nearest # None /\ nearestPlayer.distance <= CHASE_RADIUS * Unit
       THEN {[enemy EXCEPT !.targetPlayerId = nearestPlayer.player.id,
                           !.target = Some(nearestPlayer.player.position),
                           !.state = CHASING]}
       ELSE IF Abs(direction) < Unit
         THEN setRandomPatrolTarget(enemy)
         ELSE {[enemy EXCEPT !.position =
                   enemy.position + normalize(direction) * moveDistance]}

DropTarget(enemy) ==
  [enemy EXCEPT !.targetPlayerId = NULL, !.target = None, !.state = PATROLLING]

updateChasing(ps, enemy, deltaTime) ==
  IF enemy.targetPlayerId = NULL
    THEN [enemy EXCEPT !.state = PATROLLING]
  ELSE IF ~HasPlayer(ps, enemy.targetPlayerId)
          \/ ~GetPlayer(ps, enemy.targetPlayerId).isAlive
    THEN DropTarget(enemy)
  ELSE
    LET targetPlayer == GetPlayer(ps, enemy.targetPlayerId)
        distanceToTarget == distanceTo(enemy.position, targetPlayer.position)
        direction == normalize(targetPlayer.position - enemy.position)
        moveDistance == (CHASE_SPEED_X10 * deltaTime) \div 10
    IN IF 2 * distanceToTarget > 3 * CHASE_RADIUS * Unit
         THEN DropTarget(enemy)
       ELSE IF distanceToTarget <= ATTACK_RANGE * Unit
         THEN [enemy EXCEPT !.state = ATTACKING]
       ELSE [enemy EXCEPT !.position = enemy.position + direction * moveDistance,
                          !.target = Some(targetPlayer.position)]

\* performAttack: the hit roll succeeds or fails
performAttack(enemy, target) ==
  { <<>>, <<[type |-> "onAttack", enemy |-> enemy.id, target |-> target.id,
            damage |-> ATTACK_DAMAGE]>> }

\* variant: an attack is rolled on every tick, whatever the time since the
\* last one
updateAttacking_NoCooldown(ps, enemy, t) ==
  IF enemy.targetPlayerId = NULL
    THEN {Out([enemy EXCEPT !.state = PATROLLING], <<>>)}
  ELSE IF ~HasPlayer(ps, enemy.targetPlayerId)
          \/ ~GetPlayer(ps, enemy.targetPlayerId).isAlive
    THEN {Out(DropTarget(enemy), <<>>)}
  ELSE
    LET targetPlayer == GetPlayer(ps, enemy.targetPlayerId)
        distanceToTarget == distanceTo(enemy.position, targetPlayer.position)
    IN IF 10 * distanceToTarget > 12 * ATTACK_RANGE * Unit
         THEN {Out([enemy EXCEPT !.state = CHASING], <<>>)}
       ELSE {Out([enemy EXCEPT !.lastAttackTime = t], ev) :
               ev \in performAttack(enemy, targetPlayer)}

updateAttacking(ps, enemy, t) ==
  IF enemy.targetPlayerId = NULL
    THEN {Out([enemy EXCEPT !.state = PATROLLING], <<>>)}
  ELSE IF ~HasPlayer(ps, enemy.targetPlayerId)
          \/ ~GetPlayer(ps, enemy.targetPlayerId).isAlive
    THEN {Out(DropTarget(enemy), <<>>)}
  ELSE
    LET targetPlayer == GetPlayer(ps, enemy.targetPlayerId)
        distanceToTarget == distanceTo(enemy.position, targetPlayer.position)
    IN IF 10 * distanceToTarget > 12 * ATTACK_RANGE * Unit
         THEN {Out([enemy EXCEPT !.state = CHASING], <<>>)}
       ELSE IF t - enemy.lastAttackTime >= ATTACK_COOLDOWN
         THEN {Out([enemy EXCEPT !.lastAttackTime = t], ev) :
                 ev \in performAttack(enemy, targetPlayer)}
       ELSE {Out(enemy, <<>>)}

\* variant: the respawn test passes as soon as RESPAWN_DELAY is reached
respawnDue_AtDelay(enemy, t) ==
  /\ enemy.deathTime # NoTime
  /\ enemy.deathTime # 0
  /\ t - enemy.deathTime >= RESPAWN_DELAY

\* the test that lets a dead enemy respawn
respawnDue(enemy, t) ==
  /\ enemy.deathTime # NoTime
  /\ enemy.deathTime # 0
  /\ t - enemy.deathTime > RESPAWN_DELAY

updateEnemy(es, ps, enemy, deltaTime, t) ==
  IF ~enemy.isAlive
    THEN IF respawnDue(enemy, t)
           THEN {Out(e, <<>>) : e \in respawnEnemy(es, ps, enemy)}
           ELSE {Out(enemy, <<>>)}
  ELSE CASE enemy.state = SPAWNING ->
              {Out(e, <<>>) : e \in updateSpawning(enemy)}
         [] enemy.state = PATROLLING ->
              {Out(e, <<>>) : e \in updatePatrolling(ps, enemy, deltaTime)}
         [] enemy.state = CHASING ->
              {Out(updateChasing(ps, enemy, deltaTime), <<>>)}
         [] enemy.state = ATTACKING ->
              updateAttacking(ps, enemy, t)
         [] OTHER -> {Out(enemy, <<>>)}

\* ------------------------------------------------------------------------
\* update(deltaTime): the per-enemy pass, in Map order.  A tick outcome is
\* [es |-> the enemies afterwards, ev |-> the callbacks invoked so far].
\* ------------------------------------------------------------------------
Cardinal(S) == Cardinality(S)

\* the last key of a Map whose keys are handed out in sequence, 0 if empty
LastKey(map) == IF DOMAIN map = {} THEN 0
                ELSE CHOOSE k \in DOMAIN map : \A j \in DOMAIN map : j <= k

\* the last enemy in Map order
LastEnemyId(es) == LastKey(es)

RECURSIVE UpdateEnemies(_, _, _, _, _, _)
UpdateEnemies(k, es, ev, ps, deltaTime, t) ==
  IF k > LastEnemyId(es) THEN {[es |-> es, ev |-> ev]}
  ELSE IF k \notin DOMAIN es THEN UpdateEnemies(k + 1, es, ev, ps, deltaTime, t)
  ELSE UNION { UpdateEnemies(k + 1, [es EXCEPT ![k] = o.enemy], ev \o o.ev,
                             ps, deltaTime, t)
               : o \in updateEnemy(es, ps, es[k], deltaTime, t) }

NewEnemy(id, spawnPosition) ==
  [id |-> id, position |-> spawnPosition, health |-> HEALTH,
   maxHealth |-> HEALTH, state |-> SPAWNING, target |-> None,
   targetPlayerId |-> NULL, spawnPoint |-> spawnPosition,
   lastAttackTime |-> 0, patrolTarget |-> spawnPosition, isAlive |-> TRUE,
   deathTime |-> NoTime]

\* spawnEnemy: outcomes [es, seq, ev]; ids are handed out in sequence
spawnEnemy(o, ps) ==
  LET alive == {i \in 1..Len(ps) : ps[i].isAlive}
  IN IF alive = {} THEN {o}
     ELSE UNION {
            { IF pos = None THEN o
              ELSE [es |-> (o.seq + 1) :> NewEnemy(o.seq + 1, ValueOf(pos)) @@ o.es,
                    seq |-> o.seq + 1,
                    ev |-> Append(o.ev, [type |-> "onSpawn", enemy |-> o.seq + 1])]
              : pos \in findSpawnPosition(o.es, ps, ps[i].position) }
            : i \in alive }

RECURSIVE SpawnLoop(_, _, _)
SpawnLoop(n, o, ps) ==
  IF n = 0 THEN {o}
  ELSE UNION { SpawnLoop(n - 1, o2, ps) : o2 \in spawnEnemy(o, ps) }

\* variant: AI is still spawned with SPAWN_THRESHOLD players
shouldSpawnAI_Inclusive(playerCount) == playerCount <= SPAWN_THRESHOLD

\* const shouldSpawnAI = playerCount < SPAWN_THRESHOLD
shouldSpawnAI(playerCount) == playerCount < SPAWN_THRESHOLD

\* variant: every missing enemy is spawned at once
enemiesToSpawn_Uncapped(maxEnemies, currentEnemies) ==
  maxEnemies - currentEnemies

\* const enemiesToSpawn = Math.min(3, maxEnemies - currentEnemies)
enemiesToSpawn(maxEnemies, currentEnemies) ==
  Min(3, maxEnemies - currentEnemies)

checkSpawning(o, ps) ==
  LET playerCount == Len(ps)
      maxEnemies == Max(1, playerCount * MAX_ENEMIES_PER_PLAYER)
      currentEnemies == Cardinal({id \in DOMAIN o.es : o.es[id].isAlive})
  IN IF ~shouldSpawnAI(playerCount)
       THEN {[o EXCEPT !.es = << >>]}
     ELSE IF currentEnemies < maxEnemies
       THEN SpawnLoop(enemiesToSpawn(maxEnemies, currentEnemies), o, ps)
     ELSE {o}

\* variant: a drop is removed after half its despawn time
cleanupLoot_Early(loot, t) ==
  LET keep == {id \in DOMAIN loot :
                 ~(t - loot[id].spawnTime > DESPAWN_TIME \div 2)}
  IN [id \in keep |-> loot[id]]

cleanupLoot(loot, t) ==
  LET keep == {id \in DOMAIN loot : ~(t - loot[id].spawnTime > DESPAWN_TIME)}
  IN [id \in keep |-> loot[id]]

TickStart(o) == [es |-> o.es, seq |-> enemySeq, ev |-> o.ev]

\* update(deltaTime), called when Date.now() has moved on by elapsed since
\* the previous tick; at most pool enemy ids are ever handed out
UpdateWithin(pool, deltaTime, elapsed) ==
  LET t == now + elapsed
      due == t - lastSpawnCheck > SPAWN_CHECK_INTERVAL
      afterEnemies == UpdateEnemies(1, enemies, <<>>, players, deltaTime, t)
      afterSpawning == UNION { IF due THEN checkSpawning(TickStart(o), players)
                                      ELSE {TickStart(o)}
                               : o \in afterEnemies }
  IN /\ ticks < MaxTicks
     /\ ticks' = ticks + 1
     /\ now' = t
     /\ \E o \in afterSpawning :
          /\ o.seq <= pool
          /\ enemies' = o.es
          /\ enemySeq' = o.seq
          /\ events' = o.ev
     /\ lastSpawnCheck' = IF due THEN t ELSE lastSpawnCheck
     /\ lootDrops' = cleanupLoot(lootDrops, t)
     /\ ret' = Void
     /\ UNCHANGED <<players, lootSeq>>
     /\ UNCHANGED nonEnemyVars

Update(deltaTime, elapsed) ==
  UpdateWithin(Cardinal(EnemyIds), deltaTime, elapsed)

\* ------------------------------------------------------------------------
\* Public calls
\* ------------------------------------------------------------------------
UpdatePlayerInfo(playerId, position, health) ==
  /\ players' = MapSetPlayer(players, [id |-> playerId, position |-> position,
                                       health |-> health, isAlive |-> health > 0])
  /\ events' = <<>>
  /\ ret' = Void
  /\ UNCHANGED <<now, enemies, enemySeq, lootDrops, lootSeq, lastSpawnCheck,
                 ticks>>
  /\ UNCHANGED nonEnemyVars

RemovePlayer(playerId) ==
  /\ players' = MapDeletePlayer(players, playerId)
  /\ enemies' = [id \in DOMAIN enemies |->
                   IF enemies[id].targetPlayerId = playerId
                     THEN [enemies[id] EXCEPT !.targetPlayerId = NULL,
                                              !.target = None,
                                              !.state = PATROLLING]
                     ELSE enemies[id]]
  /\ events' = <<>>
  /\ ret' = Void
  /\ UNCHANGED <<now, enemySeq, lootDrops, lootSeq, lastSpawnCheck,
                 ticks>>
  /\ UNCHANGED nonEnemyVars

createLootDrop(id, position, t) ==
  [id |-> id, position |-> position, spawnTime |-> t]

\* variant: the lethal branch leaves the state it found
damageEnemyLethal_KeepsState(enemy, t) ==
  [enemy EXCEPT !.health = 0, !.isAlive = FALSE, !.deathTime = t]

damageEnemyLethal(enemy, t) ==
  [enemy EXCEPT !.health = 0, !.isAlive = FALSE, !.state = DEAD, !.deathTime = t]

\* variant: the attacker is adopted as target without a change of state
damageEnemyAdopt_NoChase(enemy, ps, attackerId) ==
  IF enemy.targetPlayerId = NULL
    THEN IF HasPlayer(ps, attackerId)
           THEN [enemy EXCEPT !.targetPlayerId = attackerId,
                              !.target = Some(GetPlayer(ps, attackerId).position)]
           ELSE [enemy EXCEPT !.targetPlayerId = attackerId]
    ELSE enemy

\* the attacker becomes the target of an enemy that has none
damageEnemyAdopt(enemy, ps, attackerId) ==
  IF enemy.targetPlayerId = NULL
    THEN IF HasPlayer(ps, attackerId)
           THEN [enemy EXCEPT !.targetPlayerId = attackerId,
                              !.target = Some(GetPlayer(ps, attackerId).position),
                              !.state = CHASING]
           ELSE [enemy EXCEPT !.targetPlayerId = attackerId]
    ELSE enemy

\* variant: damageEnemy goes on for any registered enemy
damageEnemyApplies_IgnoresAlive(es, enemyId) ==
  /\ enemyId \in DOMAIN es

\* damageEnemy goes on only for a registered enemy that is alive
damageEnemyApplies(es, enemyId) ==
  /\ enemyId \in DOMAIN es
  /\ es[enemyId].isAlive

\* variant: the damage is taken off maxHealth
damagedHealth_FromMax(enemy, damage) == enemy.maxHealth - damage

\* enemy.health -= damage
damagedHealth(enemy, damage) == enemy.health - damage

damageEnemy(es, drops, seq, plrs, enemyId, damage, attackerId, time) ==
  IF ~damageEnemyApplies(es, enemyId)
    THEN [enemies |-> es, lootDrops |-> drops, lootSeq |-> seq,
          events |-> <<>>, result |-> FALSE]
  ELSE IF damagedHealth(es[enemyId], damage) <= 0
    THEN [enemies |-> [es EXCEPT ![enemyId] = damageEnemyLethal(@, time)],
          lootDrops |-> (seq + 1) :>
              createLootDrop(seq + 1, es[enemyId].position, time) @@ drops,
          lootSeq |-> seq + 1,
          events |-> <<[type |-> "onDeath", enemy |-> enemyId,
                        loot |-> seq + 1],
                       [type |-> "onLootSpawn", loot |-> seq + 1]>>,
          result |-> TRUE]
  ELSE [enemies |-> [es EXCEPT ![enemyId] =
            damageEnemyAdopt(
              [es[enemyId] EXCEPT
                 !.health = damagedHealth(es[enemyId], damage)],
              plrs, attackerId)],
        lootDrops |-> drops, lootSeq |-> seq,
        events |-> <<>>, result |-> FALSE]

\* A call of damageEnemy.  The lethal branch creates a loot drop, and the
\* number of drops ever created is capped at MaxLoot.
DamageEnemy(enemyId, damage, attackerId) ==
  LET r == damageEnemy(enemies, lootDrops, lootSeq, players,
                       enemyId, damage, attackerId, now)
  IN /\ r.lootSeq <= MaxLoot
     /\ enemies' = r.enemies
     /\ lootDrops' = r.lootDrops
     /\ lootSeq' = r.lootSeq
     /\ events' = r.events
     /\ ret' = Bool(r.result)
     /\ UNCHANGED <<now, enemySeq, players, lastSpawnCheck, ticks>>
     /\ UNCHANGED nonEnemyVars

\* tryPickupLoot: the first drop, in Map order, within PICKUP_RADIUS
TryPickupLoot(playerId, playerPosition) ==
  LET near == {id \in DOMAIN lootDrops :
                 distanceTo(playerPosition, lootDrops[id].position)
                   <= PICKUP_RADIUS * Unit}
      first == CHOOSE id \in near : \A other \in near : id <= other
  IN /\ IF near = {}
          THEN /\ UNCHANGED lootDrops
               /\ events' = <<>>
               /\ ret' = Loot(None)
          ELSE /\ lootDrops' = [id \in DOMAIN lootDrops \ {first} |-> lootDrops[id]]
               /\ events' = <<[type |-> "onLootPickup", loot |-> first,
                               player |-> playerId]>>
               /\ ret' = Loot(Some(first))
     /\ UNCHANGED <<now, enemies, enemySeq, players, lootSeq, lastSpawnCheck,
                    ticks>>
     /\ UNCHANGED nonEnemyVars


\* ------------------------------------------------------------------------
\* EnhancedCollisionSystem: spatial grid
\* ------------------------------------------------------------------------
gridSize == CHUNK_SIZE * Unit

\* Set.add / Set.delete on a Set kept in insertion order
SetAdd(cell, id) ==
  IF \E i \in 1..Len(cell) : cell[i] = id THEN cell ELSE Append(cell, id)

SetDelete(cell, id) == SelectSeq(cell, LAMBDA x : x # id)

Members(cell) == {cell[i] : i \in 1..Len(cell)}

\* variant: the 9 keys are all the key of the cell of position
getGridKeys_OwnCell(position) ==
  LET x == position \div gridSize
      z == 0 \div gridSize
  IN [i \in 1..9 |-> <<x, z>>]

\* getGridKeys: the 3x3 block of keys around the cell of position, in the
\* order of the two loops (dx outer, dz inner); z is 0 on the x axis
getGridKeys(position) ==
  LET x == position \div gridSize
      z == 0 \div gridSize
  IN [i \in 1..9 |-> <<x + ((i - 1) \div 3) - 1, z + ((i - 1) % 3) - 1>>]

KeySet(position) == {getGridKeys(position)[i] : i \in 1..9}

updateSpatialGrid(grid, id, position) ==
  LET keys == KeySet(position)
  IN [k \in DOMAIN grid \cup keys |->
        IF k \in keys
          THEN SetAdd(IF k \in DOMAIN grid THEN grid[k] ELSE << >>, id)
          ELSE grid[k]]

removeFromSpatialGrid(grid, id, position) ==
  LET keys == KeySet(position)
      kept == {k \in DOMAIN grid : k \notin keys \/ SetDelete(grid[k], id) # << >>}
  IN [k \in kept |-> IF k \in keys THEN SetDelete(grid[k], id) ELSE grid[k]]

\* getNearbyObjects: the ids of the 9 cells, in Set insertion order
RECURSIVE CollectCells(_, _, _, _)
CollectCells(grid, keys, i, acc) ==
  IF i > Len(keys) THEN acc
  ELSE LET cell == IF keys[i] \in DOMAIN grid THEN grid[keys[i]] ELSE << >>
           add == SelectSeq(cell, LAMBDA id : id \notin Members(acc))
       IN CollectCells(grid, keys, i + 1, acc \o add)

getNearbyObjects(grid, position) ==
  CollectCells(grid, getGridKeys(position), 1, << >>)

\* ------------------------------------------------------------------------
\* EnhancedCollisionSystem: bounds and shape tests
\* ------------------------------------------------------------------------
NoBounds == [kind |-> "none"]

\* updateBounds: a sphere centred on the object's position vector, or a box
\* around the position at the time of the call
updateBounds(type, position) ==
  CASE type = "tree" -> [kind |-> "sphere", radius |-> TREE_RADIUS]
    [] type = "stone" -> [kind |-> "sphere", radius |-> STONE_RADIUS]
    [] type = "building" -> [kind |-> "box", min |-> position - WALL_HALF_WIDTH,
                             max |-> position + WALL_HALF_WIDTH]
    [] type = "enemy" -> [kind |-> "sphere", radius |-> ENEMY_RADIUS]
    [] type = "loot" -> [kind |-> "sphere", radius |-> LOOT_RADIUS]

NoCollision == [hasCollision |-> FALSE, normal |-> 0, penetration |-> 0]

\* variant: the test forgets the radius of the second sphere
checkSphereSphereCollision_OneRadius(center, radius, center2, radius2) ==
  LET distance == distanceTo(center, center2)
      minDistance == radius
  IN IF distance < minDistance
       THEN [hasCollision |-> TRUE, normal |-> normalize(center - center2),
             penetration |-> minDistance - distance]
       ELSE NoCollision

checkSphereSphereCollision(center, radius, center2, radius2) ==
  LET distance == distanceTo(center, center2)
      minDistance == radius + radius2
  IN IF distance < minDistance
       THEN [hasCollision |-> TRUE, normal |-> normalize(center - center2),
             penetration |-> minDistance - distance]
       ELSE NoCollision

\* Box3.clampPoint
clampPoint(min, max, point) == Max(min, Min(max, point))

checkSphereBoxCollision(center, radius, min, max) ==
  LET closestPoint == clampPoint(min, max, center)
      distance == distanceTo(center, closestPoint)
  IN IF distance < radius
       THEN [hasCollision |-> TRUE, normal |-> normalize(center - closestPoint),
             penetration |-> radius - distance]
       ELSE NoCollision

checkSphereObjectCollision(center, radius, object) ==
  CASE object.bounds.kind = "sphere" ->
         checkSphereSphereCollision(center, radius, object.position,
                                    object.bounds.radius)
    [] object.bounds.kind = "box" ->
         checkSphereBoxCollision(center, radius, object.bounds.min,
                                 object.bounds.max)
    [] OTHER ->
         checkSphereSphereCollision(center, radius, object.position,
                                    DEFAULT_OBJECT_RADIUS)

\* checkSphereCollision: the first colliding object among the nearby ids
RECURSIVE FirstCollision(_, _, _, _, _, _)
FirstCollision(objects, nearby, i, position, radius, excludeIds) ==
  IF i > Len(nearby) THEN NoCollision
  ELSE IF nearby[i] \in excludeIds \/ nearby[i] \notin DOMAIN objects
    THEN FirstCollision(objects, nearby, i + 1, position, radius, excludeIds)
  ELSE LET collision ==
             checkSphereObjectCollision(position, radius, objects[nearby[i]])
       IN IF collision.hasCollision THEN collision
          ELSE FirstCollision(objects, nearby, i + 1, position, radius, excludeIds)

checkSphereCollision(objects, grid, position, radius, excludeIds) ==
  FirstCollision(objects, getNearbyObjects(grid, position), 1, position,
                 radius, excludeIds)

\* resolveCollision: r carries the current position and velocity, the number
\* of collision tests made and whether the last test found no collision
separate(r, radius, collision) ==
  LET separationDistance == radius + collision.penetration + SEPARATION_MARGIN
      velocityDotNormal == r.newVelocity * collision.normal
  IN [r EXCEPT
        !.newPosition = r.newPosition + collision.normal * separationDistance,
        !.newVelocity =
           IF velocityDotNormal < 0
             THEN (BOUNCE_DAMPING_X10
                     * (r.newVelocity - collision.normal * velocityDotNormal))
                  \div 10
             ELSE r.newVelocity,
        !.collisionOccurred = TRUE]

RECURSIVE ResolveLoop(_, _, _, _, _, _)
ResolveLoop(objects, grid, i, r, radius, excludeIds) ==
  IF ~(i < MAX_COLLISION_ITERATIONS) THEN r
  ELSE LET collision ==
             checkSphereCollision(objects, grid, r.newPosition, radius, excludeIds)
           tested == [r EXCEPT !.tests = r.tests + 1]
       IN IF ~collision.hasCollision
            THEN [tested EXCEPT !.clear = TRUE]
            ELSE ResolveLoop(objects, grid, i + 1,
                             separate(tested, radius, collision),
                             radius, excludeIds)

resolveCollision(objects, grid, position, radius, velocity, excludeIds) ==
  ResolveLoop(objects, grid, 0,
              [newPosition |-> position, newVelocity |-> velocity,
               collisionOccurred |-> FALSE, tests |-> 0, clear |-> FALSE],
              radius, excludeIds)

\* ------------------------------------------------------------------------
\* EnhancedCollisionSystem: public calls.  The object handed to the system
\* stays the owner's: ownerPosition is the position the owner has left in
\* it when the call is made.  resolved holds the last resolveCollision call
\* for as long as the object set it was made against is unchanged.
\* ------------------------------------------------------------------------
NotResolved == [called |-> FALSE]

AddCollisionObject(id, type, position, withBounds) ==
  /\ collisionObjects' =
       [i \in DOMAIN collisionObjects \cup {id} |->
          IF i = id
            THEN [id |-> id, type |-> type, position |-> position,
                  bounds |-> IF withBounds THEN updateBounds(type, position)
                                           ELSE NoBounds]
            ELSE collisionObjects[i]]
  /\ spatialGrid' = updateSpatialGrid(spatialGrid, id, position)
  /\ resolved' = NotResolved
  /\ UNCHANGED nonCollisionVars

RemoveCollisionObject(id, ownerPosition) ==
  /\ IF id \in DOMAIN collisionObjects
       THEN /\ spatialGrid' = removeFromSpatialGrid(spatialGrid, id, ownerPosition)
            /\ collisionObjects' =
                 [i \in DOMAIN collisionObjects \ {id} |-> collisionObjects[i]]
       ELSE UNCHANGED <<collisionObjects, spatialGrid>>
  /\ resolved' = NotResolved
  /\ UNCHANGED nonCollisionVars

UpdateCollisionObject(id, ownerPosition, position) ==
  /\ IF id \in DOMAIN collisionObjects
       THEN /\ spatialGrid' =
                 updateSpatialGrid(
                   removeFromSpatialGrid(spatialGrid, id, ownerPosition),
                   id, position)
            /\ collisionObjects' =
                 [collisionObjects EXCEPT ![id] =
                    [id |-> id, type |-> collisionObjects[id].type,
                     position |-> position,
                     bounds |-> updateBounds(collisionObjects[id].type, position)]]
       ELSE UNCHANGED <<collisionObjects, spatialGrid>>
  /\ resolved' = NotResolved
  /\ UNCHANGED nonCollisionVars

ResolveCollision(position, radius, velocity, excludeIds) ==
  /\ resolved' = [called |-> TRUE, position |-> position, radius |-> radius,
                  velocity |-> velocity, excludeIds |-> excludeIds,
                  result |-> resolveCollision(collisionObjects, spatialGrid,
                                              position, radius, velocity,
                                              excludeIds)]
  /\ UNCHANGED <<collisionObjects, spatialGrid>>
  /\ UNCHANGED nonCollisionVars

\* the position the owner has left in a registered object: the one the
\* system last saw, or a new one written without telling the system
OwnerPositions(id) == PositionsOf(id)

CollisionInit ==
  /\ collisionObjects = << >>
  /\ spatialGrid = << >>
  /\ resolved = NotResolved

\* the collision system
NextCollision ==
  \/ \E id \in ObjectIds, kind \in ObjectKinds : \E pos \in PositionsOf(id) :
       AddCollisionObject(id, kind[1], pos, kind[2])
  \/ \E id \in ObjectIds : \E own \in OwnerPositions(id) :
       RemoveCollisionObject(id, own)
  \/ \E id \in ObjectIds : \E pos \in PositionsOf(id), own \in OwnerPositions(id) :
       UpdateCollisionObject(id, own, pos)
  \/ \E pos \in ResolvePositions, radius \in SphereRadii, v \in Velocities,
        ex \in ExcludeSets :
       ResolveCollision(pos, radius, v, ex)

\* ------------------------------------------------------------------------
\* Terrain height.  A height grid is a sequence of rows of heights, row and
\* column 0 of the code being row and column 1 here; coordinates and heights
\* are in thousandths.
\* ------------------------------------------------------------------------
TERRAIN_HEIGHT == 20

HeightGrids ==
  { << >>,
    << <<0, 0>>, <<0, 0>> >>,
    << <<500, 250>>, <<750, 1000>> >> }

SampleCoordinates ==
  {-(2 * Unit), -Unit, -(Unit \div 2), 0, Unit \div 2, Unit, 2 * Unit}

Number(v) == [kind |-> "number", value |-> v]

\* terrainHeightData[row]?.[column] || 0
HeightOrZero(grid, row, column) ==
  IF row + 1 \in DOMAIN grid /\ column + 1 \in DOMAIN grid[row + 1]
    THEN grid[row + 1][column + 1]
    ELSE 0

\* EnemyAISystem.getTerrainHeight: bilinear interpolation, 0 outside
getTerrainHeight(x, z, grid) ==
  IF Len(grid) = 0 THEN 0
  ELSE
    LET terrainSize == Len(grid)
        gridX == x + (terrainSize * Unit) \div 2
        gridZ == z + (terrainSize * Unit) \div 2
        x0 == gridX \div Unit
        z0 == gridZ \div Unit
        x1 == Min(x0 + 1, terrainSize - 1)
        z1 == Min(z0 + 1, terrainSize - 1)
        fx == gridX - x0 * Unit
        fz == gridZ - z0 * Unit
        h0 == HeightOrZero(grid, z0, x0) * (Unit - fx)
                + HeightOrZero(grid, z0, x1) * fx
        h1 == HeightOrZero(grid, z1, x0) * (Unit - fx)
                + HeightOrZero(grid, z1, x1) * fx
    IN IF x0 < 0 \/ x0 >= terrainSize \/ z0 < 0 \/ z0 >= terrainSize
         THEN 0
         ELSE (h0 * (Unit - fz) + h1 * fz) \div (Unit * Unit)

\* EnhancedCollisionSystem.getTerrainHeight: the same computation
collisionTerrainHeight(x, z, grid) == getTerrainHeight(x, z, grid)

\* PlayerSystem.getTerrainHeight: the cell of the clamped grid coordinates
playerTerrainHeight(x, z, grid) ==
  IF Len(grid) = 0 THEN 0
  ELSE
    LET gridX == (x + (Len(grid) * Unit) \div 2) \div Unit
        gridZ == (z + (Len(grid[1]) * Unit) \div 2) \div Unit
        clampedX == Max(0, Min(Len(grid) - 1, gridX))
        clampedZ == Max(0, Min(Len(grid[1]) - 1, gridZ))
    IN grid[clampedX + 1][clampedZ + 1] * TERRAIN_HEIGHT

NotSampled == [sampler |-> "none"]

Sampled(sampler, x, z, grid, height) ==
  [sampler |-> sampler, x |-> x, z |-> z, grid |-> grid,
   result |-> Number(height)]

\* EnemyAISystem.setTerrainData
SetTerrainData(grid) ==
  /\ terrainHeightData' = grid
  /\ sampled' = NotSampled
  /\ UNCHANGED nonTerrainVars

\* the enemy system samples its own grid
GetTerrainHeight(x, z) ==
  /\ sampled' = Sampled("EnemyAISystem", x, z, terrainHeightData,
                        getTerrainHeight(x, z, terrainHeightData))
  /\ UNCHANGED <<terrainHeightData, nonTerrainVars>>

\* the collision system samples the grid it is handed
GetCollisionTerrainHeight(x, z, grid) ==
  /\ sampled' = Sampled("EnhancedCollisionSystem", x, z, grid,
                        collisionTerrainHeight(x, z, grid))
  /\ UNCHANGED <<terrainHeightData, nonTerrainVars>>

\* the player system samples the grid it is handed
GetPlayerTerrainHeight(x, z, grid) ==
  /\ sampled' = Sampled("PlayerSystem", x, z, grid,
                        playerTerrainHeight(x, z, grid))
  /\ UNCHANGED <<terrainHeightData, nonTerrainVars>>

TerrainInit ==
  /\ terrainHeightData = << >>
  /\ sampled = NotSampled

NextTerrain ==
  \/ \E grid \in HeightGrids : SetTerrainData(grid)
  \/ \E x \in SampleCoordinates, z \in SampleCoordinates :
       GetTerrainHeight(x, z)
  \/ \E x \in SampleCoordinates, z \in SampleCoordinates,
        grid \in HeightGrids :
       GetCollisionTerrainHeight(x, z, grid)
  \/ \E x \in SampleCoordinates, z \in SampleCoordinates,
        grid \in HeightGrids :
       GetPlayerTerrainHeight(x, z, grid)

\* ------------------------------------------------------------------------
\* Teardown.  The constructor of EnemyAISystem starts the update timer and
\* dispose stops it; the ticks of this part are the timer's.
\* ------------------------------------------------------------------------
MaxDisposals == 3

TIMER == "interval"

\* variant: dispose leaves the timer running
stopUpdateLoop_KeepsTimer(handle) == handle

\* if (this.updateInterval) { clearInterval(...); this.updateInterval = null }
stopUpdateLoop(handle) == IF handle # NULL THEN NULL ELSE handle

Disposal(system, found) == [system |-> system, found |-> found]

\* the callback of the update timer
IntervalTick(deltaTime, elapsed) ==
  /\ updateInterval # NULL
  /\ Update(deltaTime, elapsed)

\* EnemyAISystem.dispose
Dispose ==
  /\ Len(disposals) < MaxDisposals
  /\ updateInterval' = stopUpdateLoop(updateInterval)
  /\ enemies' = << >>
  /\ players' = << >>
  /\ lootDrops' = << >>
  /\ events' = << >>
  /\ ret' = Void
  /\ disposals' = Append(disposals,
                         Disposal("EnemyAISystem",
                                  Cardinal(DOMAIN enemies)
                                    + Cardinal(DOMAIN lootDrops)))
  /\ UNCHANGED <<now, enemySeq, lootSeq, lastSpawnCheck, ticks>>
  /\ UNCHANGED <<collisionVars, combatVars, syncVars, waveVars, passVars,
                 terrainVars, gearVars>>

\* EnhancedCollisionSystem.dispose
DisposeCollision ==
  /\ Len(disposals) < MaxDisposals
  /\ collisionObjects' = << >>
  /\ spatialGrid' = << >>
  /\ resolved' = NotResolved
  /\ disposals' = Append(disposals,
                         Disposal("EnhancedCollisionSystem",
                                  Cardinal(DOMAIN collisionObjects)))
  /\ UNCHANGED <<enemyVars, combatVars, syncVars, waveVars, updateInterval,
                 passVars, terrainVars, gearVars>>

PassInit == passed = << >>

LifecycleInit ==
  /\ updateInterval = TIMER
  /\ disposals = << >>

NextLifecycle ==
  \/ \E dt \in DeltaTimes, el \in ClockSteps : IntervalTick(dt, el)
  \/ \E in \in {<<"player", 0, 100>>} : UpdatePlayerInfo(in[1], in[2], in[3])
  \/ \E e \in EnemyIds, d \in {HEALTH} : DamageEnemy(e, d, "player")
  \/ \E id \in {"a"}, kind \in ObjectKinds : \E pos \in PositionsOf(id) :
       AddCollisionObject(id, kind[1], pos, kind[2])
  \/ Dispose
  \/ DisposeCollision

\* ------------------------------------------------------------------------
\* Wave management of EnemyManager (enemy-manager.tsx).  Times are in
\* milliseconds.  The state updates of one callback are committed together,
\* and the wave-management effect, whose dependencies they are, runs again
\* on the committed state before the next callback.  The enemy system is
\* seen through the number of living enemies, which is all the wave check
\* reads of it; the updatePlayerInfo calls of startWave do not change it.
\* ------------------------------------------------------------------------
MAX_WAVES == 10

WAVE_COOLDOWN == 10000

WAVE_CHECK_INTERVAL == 1000

MaxKills == 10

MaxAlive == 2

MaxTimers == 2

\* variant: the target grows with the wave number without a cap
getWaveEnemyCount_Uncapped(wave) == 3 + (wave * 3) \div 2

\* Math.min(3 + Math.floor(wave * 1.5), 10)
getWaveEnemyCount(wave) == Min(3 + (wave * 3) \div 2, 10)

Notification(kind, wave) == [kind |-> kind, wave |-> wave]

\* the component state a callback starts from
WaveState ==
  [currentWave |-> currentWave,
   waveEnemiesKilled |-> waveEnemiesKilled,
   waveInProgress |-> waveInProgress,
   waveTimers |-> waveTimers,
   notified |-> << >>]

startWave(w, waveNumber) ==
  [w EXCEPT !.currentWave = waveNumber,
            !.waveInProgress = TRUE,
            !.waveEnemiesKilled = 0,
            !.notified = Append(@, Notification("starting", waveNumber))]

completeWave(w) ==
  [w EXCEPT !.waveInProgress = FALSE,
            !.notified = Append(@, Notification("cleared", w.currentWave)),
            !.waveTimers = Append(@, [remaining |-> WAVE_COOLDOWN,
                                      wave |-> w.currentWave])]

\* the body of the wave-management effect
waveEffect(active, w) ==
  IF active /\ ~w.waveInProgress /\ w.currentWave = 1
  THEN startWave(w, 1)
  ELSE w

\* the condition of the interval callback
waveComplete(w, alive) ==
  /\ w.waveInProgress
  /\ w.waveEnemiesKilled >= getWaveEnemyCount(w.currentWave)
  /\ alive = 0

\* the setTimeout callback of completeWave, with the wave of its closure
nextWaveTimeout(w, wave) ==
  IF wave < MAX_WAVES
  THEN startWave(w, wave + 1)
  ELSE [w EXCEPT !.notified = Append(@, Notification("survived", wave))]

Commit(w) ==
  /\ currentWave' = w.currentWave
  /\ waveEnemiesKilled' = w.waveEnemiesKilled
  /\ waveInProgress' = w.waveInProgress
  /\ waveTimers' = w.waveTimers
  /\ notified' = w.notified

\* the game becomes active: the effect runs for the first time
ActivateGame ==
  /\ ~isGameActive
  /\ isGameActive' = TRUE
  /\ Commit(waveEffect(TRUE, WaveState))
  /\ UNCHANGED <<aliveEnemies, nonWaveVars>>

\* the enemy system spawns an enemy during a frame update
EnemySpawned ==
  /\ isGameActive
  /\ aliveEnemies < MaxAlive
  /\ aliveEnemies' = aliveEnemies + 1
  /\ notified' = <<Notification("spawned", currentWave)>>
  /\ UNCHANGED <<isGameActive, currentWave, waveEnemiesKilled,
                 waveInProgress, waveTimers, nonWaveVars>>

\* the death callback of the enemy system
EnemyKilled ==
  /\ aliveEnemies > 0
  /\ waveEnemiesKilled < MaxKills
  /\ aliveEnemies' = aliveEnemies - 1
  /\ Commit(waveEffect(isGameActive,
                       [WaveState EXCEPT
                          !.waveEnemiesKilled = @ + 1,
                          !.notified = <<Notification("eliminated",
                                                      currentWave)>>]))
  /\ UNCHANGED <<isGameActive, nonWaveVars>>

\* the interval callback finds the wave complete
WaveCheck ==
  /\ isGameActive
  /\ waveComplete(WaveState, aliveEnemies)
  /\ Len(waveTimers) < MaxTimers
  /\ Commit(waveEffect(isGameActive, completeWave(WaveState)))
  /\ UNCHANGED <<isGameActive, aliveEnemies, nonWaveVars>>

\* time passes while no timeout is due
AdvanceTime ==
  /\ waveTimers # << >>
  /\ waveTimers[1].remaining > 0
  /\ waveTimers' = [i \in DOMAIN waveTimers |->
                      [waveTimers[i] EXCEPT
                         !.remaining = @ - WAVE_CHECK_INTERVAL]]
  /\ notified' = << >>
  /\ UNCHANGED <<isGameActive, currentWave, waveEnemiesKilled,
                 waveInProgress, aliveEnemies, nonWaveVars>>

\* the oldest timeout of completeWave is due
TimerFire ==
  /\ waveTimers # << >>
  /\ waveTimers[1].remaining = 0
  /\ Commit(waveEffect(isGameActive,
                       nextWaveTimeout([WaveState EXCEPT
                                          !.waveTimers = Tail(@)],
                                       waveTimers[1].wave)))
  /\ UNCHANGED <<isGameActive, aliveEnemies, nonWaveVars>>

WaveInit ==
  /\ isGameActive = FALSE
  /\ currentWave = 1
  /\ waveEnemiesKilled = 0
  /\ waveInProgress = FALSE
  /\ aliveEnemies = 0
  /\ waveTimers = << >>
  /\ notified = << >>

NextWaves ==
  \/ ActivateGame
  \/ EnemySpawned
  \/ EnemyKilled
  \/ WaveCheck
  \/ AdvanceTime
  \/ TimerFire

\* ------------------------------------------------------------------------
\* Multiplayer synchronisation of ToolSystem (part_002), BuildingSystem and
\* WeaponSystem.  A payload is a record whose fields are optional values:
\* None stands for a field the payload lacks.  An exception ends a call
\* where it is thrown, and what was assigned before stays assigned.
\* ------------------------------------------------------------------------
WEAPON_SLOTS == 5

UNLOCKED_SLOTS == 3

ToolTypes == {"hatchet", "pickaxe", "shovel"}

BuildingTypes == {"storage_box", "wall", "door", "foundation"}

WeaponIds == {"rifle", "shotgun", "pistol"}

\* GAME_CONFIG.WEAPONS.TYPES[...].ammo.current
TemplateAmmo(weaponId) ==
  CASE weaponId = "rifle" -> 30
    [] weaponId = "shotgun" -> 8
    [] weaponId = "pistol" -> 15

\* Map.set on a Map kept in insertion order
MapSet(map, entry) == MapSetPlayer(map, entry)

Tool(id, type, durability) == [id |-> id, type |-> type, durability |-> durability]

\* building_${Date.now()}_${random}
BuildingId(time, random) == <<"building", time, random>>

\* new THREE.Euler(x, y, z): the angles, in thousandths of a radian, of a
\* rotation in the default order, the one every caller constructs
Euler(x, y, z) == [x |-> x, y |-> y, z |-> z]

\* the width of the templates of initializeBuildingTemplates, along the
\* axis of the positions
TemplateWidth(type) ==
  CASE type = "storage_box" -> 1200
    [] type = "wall" -> 2000
    [] type = "door" -> 1000
    [] type = "foundation" -> 4000

\* a building as placeBuilding stores it
Building(id, type, x, rotation) ==
  [id |-> id, type |-> type, position |-> x, rotation |-> rotation,
   dimensions |-> TemplateWidth(type)]

\* the tool sets and building sets of the peers
PeerTools ==
  { << >>,
    <<Tool("hatchet_1", "hatchet", 100), Tool("pickaxe_1", "pickaxe", 80)>>,
    <<Tool("pickaxe_1", "pickaxe", 79)>> }

PeerBuildings ==
  { << >>,
    <<Building(BuildingId(1, 1), "wall", 0, Euler(0, 0, 0))>>,
    <<Building(BuildingId(2, 1), "door", 4 * Unit, Euler(0, 1571, 0)),
      Building(BuildingId(1, 1), "wall", 2 * Unit, Euler(0, 0, 0))>> }

EmptySlot(index) == [slotIndex |-> index, weapon |-> None,
                     isUnlocked |-> index < UNLOCKED_SLOTS]

Weapon(id, ammo) == [id |-> id, ammo |-> ammo]

\* equipWeapon on a state
equipWeapon(state, slotIndex, weapon) ==
  IF slotIndex < 0 \/ slotIndex >= WEAPON_SLOTS THEN state
  ELSE IF ~state.slots[slotIndex].isUnlocked THEN state
  ELSE [state EXCEPT !.slots[slotIndex].weapon = Some(weapon)]

\* the WeaponSystem constructor: five slots, the rifle in slot 0
NewWeaponState ==
  equipWeapon([currentSlot |-> 0,
               slots |-> [i \in 0..(WEAPON_SLOTS - 1) |-> EmptySlot(i)],
               isReloading |-> FALSE, isSwitching |-> FALSE],
              0, Weapon("rifle", TemplateAmmo("rifle")))

\* the weapon states of the peers
PeerWeaponStates ==
  { NewWeaponState,
    [equipWeapon(NewWeaponState, 1, Weapon("shotgun", 5))
       EXCEPT !.currentSlot = 1, !.isReloading = TRUE],
    [NewWeaponState EXCEPT !.slots[0].weapon = None,
                           !.slots[3].isUnlocked = TRUE,
                           !.slots[3].weapon = Some(Weapon("pistol", 15)),
                           !.isSwitching = TRUE] }

\* ToolSystem.getStateForSync
toolsForSync(ts) == [tools |-> Some(ts)]

\* variant: the snapshot does not carry the rotations
buildingsForSync_NoRotation(bs) ==
  [buildings |-> Some([i \in 1..Len(bs) |->
      [id |-> bs[i].id, type |-> bs[i].type,
       position |-> Some(bs[i].position),
       rotation |-> [x |-> 0, y |-> 0, z |-> 0],
       dimensions |-> bs[i].dimensions]])]

\* BuildingSystem.getStateForSync
buildingsForSync(bs) ==
  [buildings |-> Some([i \in 1..Len(bs) |->
      [id |-> bs[i].id, type |-> bs[i].type,
       position |-> Some(bs[i].position),
       rotation |-> [x |-> bs[i].rotation.x, y |-> bs[i].rotation.y,
                     z |-> bs[i].rotation.z],
       dimensions |-> bs[i].dimensions]])]

\* WeaponSystem.getStateForSync
weaponsForSync(state) ==
  [currentSlot |-> state.currentSlot,
   slots |-> Some([i \in 1..WEAPON_SLOTS |->
     LET slot == state.slots[i - 1]
     IN [slotIndex |-> slot.slotIndex,
         weaponId |-> IF slot.weapon = None THEN NULL
                      ELSE ValueOf(slot.weapon).id,
         isUnlocked |-> slot.isUnlocked,
         ammo |-> IF slot.weapon = None THEN None
                  ELSE Some(ValueOf(slot.weapon).ammo)]]),
   isReloading |-> state.isReloading,
   isSwitching |-> state.isSwitching]

\* the snapshots the peers send
ToolSnapshots == { toolsForSync(ts) : ts \in PeerTools }

BuildingSnapshots == { buildingsForSync(bs) : bs \in PeerBuildings }

WeaponSnapshots == { weaponsForSync(st) : st \in PeerWeaponStates }

\* payloads that lack a required field or carry an unknown tag
BadToolPayloads ==
  { [tools |-> None],
    [tools |-> Some(<<Tool("axe_1", "axe", 10)>>)] }

BadBuildingPayloads ==
  { [buildings |-> None],
    [buildings |-> Some(<<[id |-> BuildingId(3, 1), type |-> "tower",
                           position |-> Some(0), rotation |-> Euler(0, 0, 0),
                           dimensions |-> 1000]>>)],
    [buildings |-> Some(<<[id |-> BuildingId(3, 1), type |-> "wall",
                           position |-> Some(0), rotation |-> Euler(0, 0, 0),
                           dimensions |-> TemplateWidth("wall")],
                          [id |-> BuildingId(4, 1), type |-> "wall",
                           position |-> None, rotation |-> Euler(0, 0, 0),
                           dimensions |-> TemplateWidth("wall")]>>)] }

BadWeaponPayloads ==
  { [currentSlot |-> 2, slots |-> None,
     isReloading |-> TRUE, isSwitching |-> FALSE],
    [currentSlot |-> 0,
     slots |-> Some(<<[slotIndex |-> 0, weaponId |-> "bazooka",
                       isUnlocked |-> FALSE, ammo |-> Some(1)]>>),
     isReloading |-> FALSE, isSwitching |-> FALSE] }

\* a payload is well formed if it has its list, every entry has its fields
\* and every tag is a known one
WellFormedTools(s) ==
  /\ s.tools # None
  /\ \A i \in 1..Len(ValueOf(s.tools)) : ValueOf(s.tools)[i].type \in ToolTypes

WellFormedBuildings(s) ==
  /\ s.buildings # None
  /\ \A i \in 1..Len(ValueOf(s.buildings)) :
       /\ ValueOf(s.buildings)[i].type \in BuildingTypes
       /\ ValueOf(s.buildings)[i].position # None

WellFormedWeapons(s) ==
  /\ s.slots # None
  /\ \A i \in 1..Len(ValueOf(s.slots)) :
       ValueOf(s.slots)[i].weaponId \in WeaponIds \cup {NULL}

\* the loop of ToolSystem.applyStateFromSync from entry i on
RECURSIVE setTools(_, _, _)
setTools(ts, list, i) ==
  IF i > Len(list) THEN ts
  ELSE setTools(MapSet(ts, Tool(list[i].id, list[i].type, list[i].durability)),
                list, i + 1)

\* variant: the tools are not cleared first
applyToolSync_NoClear(ts, s) ==
  IF s.tools = None THEN [tools |-> ts, threw |-> TRUE]
  ELSE [tools |-> setTools(ts, ValueOf(s.tools), 1), threw |-> FALSE]

\* ToolSystem.applyStateFromSync: clear, then iterate syncData.tools, which
\* throws a TypeError when the list is missing
applyToolSync(ts, s) ==
  IF s.tools = None THEN [tools |-> << >>, threw |-> TRUE]
  ELSE [tools |-> setTools(<< >>, ValueOf(s.tools), 1), threw |-> FALSE]

\* the loop of BuildingSystem.applyStateFromSync from entry i on; reading
\* the position of an entry that has none throws a TypeError
RECURSIVE setBuildings(_, _, _)
setBuildings(bs, list, i) ==
  IF i > Len(list) THEN [buildings |-> bs, threw |-> FALSE]
  ELSE IF list[i].position = None THEN [buildings |-> bs, threw |-> TRUE]
  ELSE setBuildings(MapSet(bs, [id |-> list[i].id, type |-> list[i].type,
                                position |-> ValueOf(list[i].position),
                                rotation |-> Euler(list[i].rotation.x,
                                                   list[i].rotation.y,
                                                   list[i].rotation.z),
                                dimensions |-> list[i].dimensions]),
                    list, i + 1)

\* BuildingSystem.applyStateFromSync
applyBuildingSync(bs, s) ==
  IF s.buildings = None THEN [buildings |-> << >>, threw |-> TRUE]
  ELSE setBuildings(<< >>, ValueOf(s.buildings), 1)

\* the slot loop of WeaponSystem.applyStateFromSync from entry i on
RECURSIVE setSlots(_, _, _)
setSlots(slots, list, i) ==
  IF i > Len(list) THEN slots
  ELSE
    LET slotData == list[i]
        k == slotData.slotIndex
    IN IF k \notin DOMAIN slots THEN setSlots(slots, list, i + 1)
       ELSE
         LET unlocked == [slots EXCEPT ![k].isUnlocked = slotData.isUnlocked]
             next ==
               IF slotData.weaponId # NULL
                 THEN IF slotData.weaponId \in WeaponIds
                        THEN [unlocked EXCEPT ![k].weapon =
                                Some(Weapon(slotData.weaponId,
                                            IF slotData.ammo # None
                                              THEN ValueOf(slotData.ammo)
                                            ELSE TemplateAmmo(slotData.weaponId)))]
                      ELSE unlocked
               ELSE [unlocked EXCEPT ![k].weapon = None]
         IN setSlots(next, list, i + 1)

\* WeaponSystem.applyStateFromSync: the three flags first, then the slots;
\* iterating a missing slot list throws a TypeError
applyWeaponSync(state, s) ==
  LET flagged == [state EXCEPT !.currentSlot = s.currentSlot,
                               !.isReloading = s.isReloading,
                               !.isSwitching = s.isSwitching]
  IN IF s.slots = None THEN [state |-> flagged, threw |-> TRUE]
     ELSE [state |-> [flagged EXCEPT
                        !.slots = setSlots(flagged.slots, ValueOf(s.slots), 1)],
           threw |-> FALSE]

NotSynced == [system |-> "none"]

ApplyToolSync(s) ==
  LET r == applyToolSync(tools, s)
  IN /\ tools' = r.tools
     /\ synced' = [system |-> "tools", payload |-> s, threw |-> r.threw]
     /\ UNCHANGED <<buildings, weaponState>>
     /\ UNCHANGED nonSyncVars

ApplyBuildingSync(s) ==
  LET r == applyBuildingSync(buildings, s)
  IN /\ buildings' = r.buildings
     /\ synced' = [system |-> "buildings", payload |-> s, threw |-> r.threw]
     /\ UNCHANGED <<tools, weaponState>>
     /\ UNCHANGED nonSyncVars

ApplyWeaponSync(s) ==
  LET r == applyWeaponSync(weaponState, s)
  IN /\ weaponState' = r.state
     /\ synced' = [system |-> "weapons", payload |-> s, threw |-> r.threw]
     /\ UNCHANGED <<tools, buildings>>
     /\ UNCHANGED nonSyncVars

\* the three systems as their constructors leave them
SyncInit ==
  /\ tools = <<Tool("hatchet_1", "hatchet", 100), Tool("pickaxe_1", "pickaxe", 80)>>
  /\ buildings = << >>
  /\ weaponState = NewWeaponState
  /\ synced = NotSynced

NextSync ==
  \/ \E s \in ToolSnapshots \cup BadToolPayloads : ApplyToolSync(s)
  \/ \E s \in BuildingSnapshots \cup BadBuildingPayloads : ApplyBuildingSync(s)
  \/ \E s \in WeaponSnapshots \cup BadWeaponPayloads : ApplyWeaponSync(s)

\* ------------------------------------------------------------------------
\* Firing, reloading and switching of WeaponSystem (weapon-system.ts).
\* Times are in milliseconds of Date.now().  A setTimeout callback runs when
\* its delay has passed, never before, and Date.now() does not pass the
\* time a pending callback is due at.  The weapons are those equipWeapon
\* copies from GAME_CONFIG.WEAPONS.TYPES; the copy is shallow, so that the
\* ammo of the weapon is the ammo object of the template.  Recoil is left
\* out.
\* ------------------------------------------------------------------------
SWITCH_COOLDOWN == 500

\* the longest time the clock of the weapon system runs for
WeaponHorizon == 2000

WeaponClockSteps == {SWITCH_COOLDOWN \div 2, SWITCH_COOLDOWN}

\* GAME_CONFIG.WEAPONS.TYPES[...].fireRate
FireRate(weaponId) ==
  CASE weaponId = "rifle" -> 125
    [] weaponId = "shotgun" -> 800
    [] weaponId = "pistol" -> 200

\* GAME_CONFIG.WEAPONS.TYPES[...].ammo.reserve
TemplateReserve(weaponId) ==
  CASE weaponId = "rifle" -> 90
    [] weaponId = "shotgun" -> 32
    [] weaponId = "pistol" -> 60

\* weapon.id === 'shotgun' ? 2000 : 1500
reloadTime(weaponId) == IF weaponId = "shotgun" THEN 2000 ELSE 1500

\* a weapon as equipWeapon stores it, with current rounds in the magazine
ArmedWeapon(weaponId, current) ==
  [id |-> weaponId,
   ammo |-> [current |-> current, reserve |-> TemplateReserve(weaponId)],
   fireRate |-> FireRate(weaponId)]

\* the state after the constructor, equipWeapon(1, PISTOL) and some shots
\* of the rifle: magazine rounds left in the rifle
ArmedState(magazine) ==
  [currentSlot |-> 0,
   slots |-> [i \in 0..(WEAPON_SLOTS - 1) |->
                [EmptySlot(i) EXCEPT !.weapon =
                   IF i = 0 THEN Some(ArmedWeapon("rifle", magazine))
                   ELSE IF i = 1
                     THEN Some(ArmedWeapon("pistol", TemplateAmmo("pistol")))
                   ELSE None]],
   isReloading |-> FALSE,
   isSwitching |-> FALSE,
   lastFireTime |-> 0,
   lastSwitchTime |-> 0]

RifleMagazines == {1, 2, TemplateAmmo("rifle")}

\* switchToSlot arguments: the rifle, the pistol, an empty slot, a locked
\* slot and no slot at all
SwitchSlots == {0, 1, 2, 3, WEAPON_SLOTS}

Timeout(kind, due, slot) == [kind |-> kind, due |-> due, slot |-> slot]

Outcome(state, timers, result) ==
  [state |-> state, timers |-> timers, result |-> result]

getCurrentWeapon(state) ==
  IF state.currentSlot \in DOMAIN state.slots
    THEN state.slots[state.currentSlot].weapon
  ELSE None

switchToSlot(state, timers, slotIndex, t) ==
  IF slotIndex < 0 \/ slotIndex >= WEAPON_SLOTS
    THEN Outcome(state, timers, FALSE)
  ELSE IF ~state.slots[slotIndex].isUnlocked
          \/ state.slots[slotIndex].weapon = None
    THEN Outcome(state, timers, FALSE)
  ELSE IF t - state.lastSwitchTime < SWITCH_COOLDOWN
    THEN Outcome(state, timers, FALSE)
  ELSE IF state.isReloading
    THEN Outcome(state, timers, FALSE)
  ELSE Outcome([state EXCEPT !.currentSlot = slotIndex,
                             !.isSwitching = TRUE,
                             !.lastSwitchTime = t],
               Append(timers, Timeout("switch", t + SWITCH_COOLDOWN, slotIndex)),
               TRUE)

canFire(state, t) ==
  LET weapon == getCurrentWeapon(state)
  IN /\ weapon # None
     /\ ~state.isReloading
     /\ ~state.isSwitching
     /\ ValueOf(weapon).ammo.current > 0
     /\ t - state.lastFireTime >= ValueOf(weapon).fireRate

\* startReload; the second test compares ammo.current with itself
startReload(state, timers, t) ==
  LET weapon == getCurrentWeapon(state)
  IN IF weapon = None \/ state.isReloading \/ state.isSwitching
       THEN Outcome(state, timers, FALSE)
     ELSE IF \/ ValueOf(weapon).ammo.reserve = 0
             \/ ValueOf(weapon).ammo.current = ValueOf(weapon).ammo.current
       THEN Outcome(state, timers, FALSE)
     ELSE Outcome([state EXCEPT !.isReloading = TRUE],
                  Append(timers,
                         Timeout("reload", t + reloadTime(ValueOf(weapon).id),
                                 state.currentSlot)),
                  TRUE)

fire(state, timers, t) ==
  IF ~canFire(state, t) THEN Outcome(state, timers, FALSE)
  ELSE
    LET slot == state.currentSlot
        shot == [state EXCEPT !.slots[slot].weapon[1].ammo.current = @ - 1,
                              !.lastFireTime = t]
        ammo == ValueOf(shot.slots[slot].weapon).ammo
    IN IF ammo.current = 0 /\ ammo.reserve > 0
         THEN [startReload(shot, timers, t) EXCEPT !.result = TRUE]
       ELSE Outcome(shot, timers, TRUE)

\* the capacity the reload callback reads from the template, whose ammo
\* object is the one of the weapon: ammo.current || 30
maxAmmo(weapon) ==
  IF weapon.ammo.current # 0 THEN weapon.ammo.current ELSE 30

\* the setTimeout callback of startReload, for the weapon of its closure
reloadTimeout(state, slot) ==
  IF state.slots[slot].weapon # None /\ state.isReloading
    THEN LET weapon == ValueOf(state.slots[slot].weapon)
             ammoNeeded == maxAmmo(weapon) - weapon.ammo.current
             ammoToReload == Min(ammoNeeded, weapon.ammo.reserve)
         IN [state EXCEPT
               !.slots[slot].weapon[1].ammo.current = @ + ammoToReload,
               !.slots[slot].weapon[1].ammo.reserve = @ - ammoToReload,
               !.isReloading = FALSE]
  ELSE state

\* the setTimeout callback of switchToSlot
switchTimeout(state) == [state EXCEPT !.isSwitching = FALSE]

NoWeaponCall == [method |-> "none"]

WeaponCall(method, argument, result) ==
  [method |-> method, argument |-> argument, result |-> result]

\* what the calls of the weapon system leave alone
nonWeaponVars ==
  <<enemies, enemySeq, players, lootDrops, lootSeq, lastSpawnCheck, ticks,
    events, ret, tools, buildings, synced, toolCall, buildCall, netVars,
    passVars, terrainVars, collisionVars, combatVars, waveVars, lifecycleVars>>

CommitWeapon(method, argument, r) ==
  /\ weaponState' = r.state
  /\ weaponTimers' = r.timers
  /\ weaponCall' = WeaponCall(method, argument, r.result)
  /\ UNCHANGED <<now, nonWeaponVars>>

SwitchToSlot(slotIndex) ==
  CommitWeapon("switchToSlot", slotIndex,
               switchToSlot(weaponState, weaponTimers, slotIndex, now))

Fire == CommitWeapon("fire", 0, fire(weaponState, weaponTimers, now))

StartReload ==
  CommitWeapon("startReload", 0, startReload(weaponState, weaponTimers, now))

\* the oldest pending callback runs; all delays of one kind are equal, so
\* the oldest is the first that is due
WeaponTimeout ==
  /\ weaponTimers # << >>
  /\ now >= weaponTimers[1].due
  /\ weaponState' = (IF weaponTimers[1].kind = "switch"
                       THEN switchTimeout(weaponState)
                     ELSE reloadTimeout(weaponState, weaponTimers[1].slot))
  /\ weaponTimers' = Tail(weaponTimers)
  /\ weaponCall' = WeaponCall("timeout", 0, FALSE)
  /\ UNCHANGED <<now, nonWeaponVars>>

\* Date.now() moves on, up to the time the next callback is due at
WeaponClock(elapsed) ==
  /\ now + elapsed <= StartTime + WeaponHorizon
  /\ \A i \in DOMAIN weaponTimers : now + elapsed <= weaponTimers[i].due
  /\ now' = now + elapsed
  /\ weaponCall' = NoWeaponCall
  /\ UNCHANGED <<weaponState, weaponTimers, nonWeaponVars>>

\* ------------------------------------------------------------------------
\* Use and repair of tools in ToolSystem (part_002).  A tool carries its
\* durability, maxDurability, cooldown and lastUseTime; the resources a use
\* gains are left out.
\* ------------------------------------------------------------------------
\* the longest time the clock of the tool system runs for
ToolHorizon == 500

ToolClockSteps == {250}

\* GAME_CONFIG.TOOLS.*.MAX_DURABILITY
MaxDurability(type) ==
  CASE type = "hatchet" -> 100
    [] type = "pickaxe" -> 80
    [] type = "shovel" -> 60

\* GAME_CONFIG.TOOLS.*: CHOP_COOLDOWN, MINE_COOLDOWN, DIG_COOLDOWN
ToolCooldown(type) ==
  CASE type = "hatchet" -> 200
    [] type = "pickaxe" -> 250
    [] type = "shovel" -> 300

\* a tool as initializeDefaultTools adds it, after some uses and repairs
WornTool(id, type, durability) ==
  [id |-> id, type |-> type, durability |-> durability,
   maxDurability |-> MaxDurability(type), cooldown |-> ToolCooldown(type),
   lastUseTime |-> 0]

\* what is left of the durability of the two default tools
HatchetDurabilities == {1, MaxDurability("hatchet")}

PickaxeDurabilities == {2, 3, MaxDurability("pickaxe")}

ToolIdsUsed == {"hatchet_1", "pickaxe_1", "shovel_1"}

TargetTypes == {"tree", "stone", "dirt"}

RepairAmounts == {0, 50, 1000}

ToolIndex(ts, toolId) == CHOOSE i \in 1..Len(ts) : ts[i].id = toolId

HasTool(ts, toolId) == \E i \in 1..Len(ts) : ts[i].id = toolId

getTool(ts, toolId) == ts[ToolIndex(ts, toolId)]

canUseTool(ts, toolId, t) ==
  /\ HasTool(ts, toolId)
  /\ getTool(ts, toolId).durability > 0
  /\ t - getTool(ts, toolId).lastUseTime >= getTool(ts, toolId).cooldown

isValidToolTarget(toolType, targetType) ==
  CASE toolType = "hatchet" -> targetType = "tree"
    [] toolType = "pickaxe" -> targetType = "stone"
    [] toolType = "shovel" -> targetType = "dirt"
    [] OTHER -> FALSE

getDurabilityLoss(toolType) ==
  CASE toolType = "hatchet" -> 1
    [] toolType = "pickaxe" -> 2
    [] toolType = "shovel" -> 1
    [] OTHER -> 1

\* variant: the durability is not kept from going below zero
worn_Unclamped(durability, durabilityLoss) == durability - durabilityLoss

\* Math.max(0, tool.durability - durabilityLoss)
worn(durability, durabilityLoss) == Max(0, durability - durabilityLoss)

ToolUseResult(success, durabilityLoss, toolBroken) ==
  [success |-> success, durabilityLoss |-> durabilityLoss,
   toolBroken |-> toolBroken]

ToolEvent(type, toolId) == [type |-> type, tool |-> toolId]

useTool(ts, toolId, targetType, t) ==
  IF ~HasTool(ts, toolId)
    THEN [tools |-> ts, result |-> ToolUseResult(FALSE, 0, FALSE),
          events |-> << >>]
  ELSE IF ~canUseTool(ts, toolId, t)
    THEN [tools |-> ts, result |-> ToolUseResult(FALSE, 0, FALSE),
          events |-> << >>]
  ELSE IF ~isValidToolTarget(getTool(ts, toolId).type, targetType)
    THEN [tools |-> ts, result |-> ToolUseResult(FALSE, 0, FALSE),
          events |-> << >>]
  ELSE
    LET k == ToolIndex(ts, toolId)
        durabilityLoss == getDurabilityLoss(ts[k].type)
        durability == worn(ts[k].durability, durabilityLoss)
        toolBroken == durability = 0
    IN [tools |-> [ts EXCEPT ![k].lastUseTime = t,
                             ![k].durability = durability],
        result |-> ToolUseResult(TRUE, durabilityLoss, toolBroken),
        events |-> <<ToolEvent("onToolUpdate", toolId)>>
                   \o (IF toolBroken THEN <<ToolEvent("onToolBreak", toolId)>>
                       ELSE << >>)]

repairTool(ts, toolId, repairAmount) ==
  IF ~HasTool(ts, toolId)
    THEN [tools |-> ts, result |-> FALSE, events |-> << >>]
  ELSE
    LET k == ToolIndex(ts, toolId)
        maxRepair == ts[k].maxDurability - ts[k].durability
        actualRepair == Min(repairAmount, maxRepair)
    IN [tools |-> [ts EXCEPT ![k].durability = @ + actualRepair],
        result |-> actualRepair > 0,
        events |-> <<ToolEvent("onToolUpdate", toolId)>>]

NoToolCall == [method |-> "none", events |-> << >>]

\* what the calls of the tool system leave alone
nonToolVars ==
  <<enemies, enemySeq, players, lootDrops, lootSeq, lastSpawnCheck, ticks,
    events, ret, buildings, weaponState, synced, weaponTimers, weaponCall,
    buildCall, netVars, passVars, terrainVars, collisionVars, combatVars, waveVars,
    lifecycleVars>>

UseTool(toolId, targetType) ==
  LET r == useTool(tools, toolId, targetType, now)
  IN /\ tools' = r.tools
     /\ toolCall' = [method |-> "useTool", toolId |-> toolId,
                     argument |-> targetType, result |-> r.result,
                     events |-> r.events]
     /\ UNCHANGED <<now, nonToolVars>>

RepairTool(toolId, repairAmount) ==
  LET r == repairTool(tools, toolId, repairAmount)
  IN /\ tools' = r.tools
     /\ toolCall' = [method |-> "repairTool", toolId |-> toolId,
                     argument |-> repairAmount, result |-> r.result,
                     events |-> r.events]
     /\ UNCHANGED <<now, nonToolVars>>

ToolClock(elapsed) ==
  /\ now + elapsed <= StartTime + ToolHorizon
  /\ now' = now + elapsed
  /\ toolCall' = NoToolCall
  /\ UNCHANGED <<tools, nonToolVars>>

NextTools ==
  \/ \E toolId \in ToolIdsUsed, targetType \in TargetTypes :
       UseTool(toolId, targetType)
  \/ \E toolId \in ToolIdsUsed, repairAmount \in RepairAmounts :
       RepairTool(toolId, repairAmount)
  \/ \E elapsed \in ToolClockSteps : ToolClock(elapsed)

\* ------------------------------------------------------------------------
\* Placement and removal of buildings in BuildingSystem
\* (building-system.ts).  Positions run along one axis; every building
\* stands at the terrain height on the line of the player, so that two
\* bounding boxes intersect exactly if their extents along the axis do.
\* createBoundingBox does not rotate the box.
\* ------------------------------------------------------------------------
GRID_SIZE == 1

MAX_PLACEMENT_DISTANCE == 10

\* the most buildings placed
MaxBuildings == 2

PlaceTypes == {"wall", "tower"}

PlacePositions == {0, 1400, 12 * Unit}

PlaceRotations == {Euler(0, 0, 0), Euler(0, 1571, 0)}

PlaceRandoms == {1, 2}

BuilderPositions == {0, 3 * Unit}

getBuildingTemplate(type) ==
  IF type \in BuildingTypes THEN Some(TemplateWidth(type)) ELSE None

\* Math.round(position.x / gridSize) * gridSize
snapToGrid(x) ==
  ((2 * x + GRID_SIZE * Unit) \div (2 * GRID_SIZE * Unit)) * (GRID_SIZE * Unit)

createBoundingBox(x, width) ==
  [min |-> x - width \div 2, max |-> x + width \div 2]

\* THREE.Box3.intersectsBox: boxes that touch intersect
intersectsBox(a, b) == ~(b.max < a.min \/ b.min > a.max)

PlacementValidation(isValid, reason, snappedPosition, snappedRotation) ==
  [isValid |-> isValid, reason |-> reason,
   snappedPosition |-> snappedPosition, snappedRotation |-> snappedRotation]

validatePlacement(bs, buildingType, position, rotation, playerPosition) ==
  IF getBuildingTemplate(buildingType) = None
    THEN PlacementValidation(FALSE, "Invalid building type", position, rotation)
  ELSE
    LET snappedPosition == snapToGrid(position)
        boundingBox ==
          createBoundingBox(snappedPosition,
                            ValueOf(getBuildingTemplate(buildingType)))
    IN IF Abs(playerPosition - snappedPosition) > MAX_PLACEMENT_DISTANCE * Unit
         THEN PlacementValidation(FALSE, "Too far from player",
                                  snappedPosition, rotation)
       ELSE IF \E i \in 1..Len(bs) :
                 intersectsBox(boundingBox,
                               createBoundingBox(bs[i].position,
                                                 bs[i].dimensions))
         THEN PlacementValidation(FALSE, "Overlaps with existing building",
                                  snappedPosition, rotation)
       ELSE PlacementValidation(TRUE, NULL, snappedPosition, rotation)

placeBuilding(bs, buildingType, position, rotation, buildingId) ==
  IF getBuildingTemplate(buildingType) = None
    THEN [buildings |-> bs, result |-> None]
  ELSE [buildings |-> MapSet(bs, Building(buildingId, buildingType, position,
                                          rotation)),
        result |-> Some(buildingId)]

removeBuilding(bs, buildingId) ==
  IF ~\E i \in 1..Len(bs) : bs[i].id = buildingId
    THEN [buildings |-> bs, result |-> FALSE]
  ELSE [buildings |-> SelectSeq(bs, LAMBDA b : b.id # buildingId),
        result |-> TRUE]

NoBuildCall == [method |-> "none"]

\* what the calls of the building system leave alone
nonBuildVars ==
  <<now, enemies, enemySeq, players, lootDrops, lootSeq, lastSpawnCheck,
    ticks, events, ret, tools, weaponState, synced, weaponTimers, weaponCall,
    toolCall, netVars, passVars, terrainVars, collisionVars, combatVars, waveVars,
    lifecycleVars>>

ValidatePlacement(buildingType, position, rotation, playerPosition) ==
  /\ buildCall' = [method |-> "validatePlacement", type |-> buildingType,
                   position |-> position, playerPosition |-> playerPosition,
                   result |-> validatePlacement(buildings, buildingType,
                                                position, rotation,
                                                playerPosition)]
  /\ UNCHANGED <<buildings, nonBuildVars>>

PlaceBuilding(buildingType, position, rotation, random) ==
  LET r == placeBuilding(buildings, buildingType, position, rotation,
                         BuildingId(now, random))
  IN /\ Len(buildings) < MaxBuildings
     /\ buildings' = r.buildings
     /\ buildCall' = [method |-> "placeBuilding", type |-> buildingType,
                      position |-> position, result |-> r.result]
     /\ UNCHANGED nonBuildVars

RemoveBuilding(buildingId) ==
  LET r == removeBuilding(buildings, buildingId)
  IN /\ buildings' = r.buildings
     /\ buildCall' = [method |-> "removeBuilding", buildingId |-> buildingId,
                      result |-> r.result]
     /\ UNCHANGED nonBuildVars

NextBuilding ==
  \/ \E buildingType \in PlaceTypes, position \in PlacePositions,
        rotation \in PlaceRotations, playerPosition \in BuilderPositions :
       ValidatePlacement(buildingType, position, rotation, playerPosition)
  \/ \E buildingType \in PlaceTypes, position \in PlacePositions,
        rotation \in PlaceRotations, random \in PlaceRandoms :
       PlaceBuilding(buildingType, position, rotation, random)
  \/ \E random \in PlaceRandoms : RemoveBuilding(BuildingId(now, random))
  \/ \E s \in BuildingSnapshots : ApplyBuildingSync(s)

\* ------------------------------------------------------------------------
\* applyStateFromSync(getStateForSync()) on one and the same system
\* ------------------------------------------------------------------------
RoundTrip(system, payload, threw) ==
  [system |-> system, payload |-> payload, threw |-> threw,
   roundTrip |-> TRUE]

RoundTripped(s) == "roundTrip" \in DOMAIN s

RoundTripTools ==
  LET s == toolsForSync(tools)
      r == applyToolSync(tools, s)
  IN /\ tools' = r.tools
     /\ synced' = RoundTrip("tools", s, r.threw)
     /\ UNCHANGED <<buildings, weaponState>>
     /\ UNCHANGED nonSyncVars

RoundTripBuildings ==
  LET s == buildingsForSync(buildings)
      r == applyBuildingSync(buildings, s)
  IN /\ buildings' = r.buildings
     /\ synced' = RoundTrip("buildings", s, r.threw)
     /\ UNCHANGED <<tools, weaponState>>
     /\ UNCHANGED nonSyncVars

RoundTripWeapons ==
  LET s == weaponsForSync(weaponState)
      r == applyWeaponSync(weaponState, s)
  IN /\ weaponState' = r.state
     /\ synced' = RoundTrip("weapons", s, r.threw)
     /\ UNCHANGED <<tools, buildings>>
     /\ UNCHANGED nonSyncVars

NextRoundTrip ==
  \/ NextSync
  \/ \E rotation \in PlaceRotations : PlaceBuilding("wall", 0, rotation, 1)
  \/ RoundTripTools
  \/ RoundTripBuildings
  \/ RoundTripWeapons

\* ------------------------------------------------------------------------
\* The connection of MultiplayerManager (building-system.ts).  The manager
\* holds the socket of its last connect; earlier sockets keep the handlers
\* that connect gave them and are counted by their state.  A socket that
\* is connecting opens or fails, an open or closing socket closes; its
\* onclose handler runs when it does.  A setTimeout callback runs at some
\* later time, an interval ticks for as long as it is not cleared.
\* ------------------------------------------------------------------------
maxReconnectAttempts == 5

\* the most sockets the connects create
MaxSockets == 7

SocketStates == {"connecting", "open", "closing"}

\* new MultiplayerManager()
NewManager ==
  [socket |-> NULL, isConnected |-> FALSE, reconnectAttempts |-> 0,
   heartbeatInterval |-> FALSE]

\* what the browser holds for the manager: the sockets it no longer refers
\* to, the running intervals, the pending reconnect timeouts and the number
\* of sockets created
NewNetwork ==
  [earlier |-> [s \in SocketStates |-> 0], intervals |-> 0,
   timeouts |-> 0, created |-> 0]

NetEvent(event, sent) == [event |-> event, sent |-> sent]

\* sendMessage: the message is handed to the socket when there is one and
\* the manager is connected; the socket transmits it when it is open
sendMessage(m) == m.socket # NULL /\ m.isConnected /\ m.socket = "open"

startHeartbeat(mn) ==
  [mn EXCEPT !.manager.heartbeatInterval = TRUE,
             !.network.intervals = @ + 1]

stopHeartbeat(mn) ==
  IF mn.manager.heartbeatInterval
    THEN [mn EXCEPT !.manager.heartbeatInterval = FALSE,
                    !.network.intervals = @ - 1]
  ELSE mn

attemptReconnect(mn) ==
  IF mn.manager.reconnectAttempts >= maxReconnectAttempts THEN mn
  ELSE [mn EXCEPT !.manager.reconnectAttempts = @ + 1,
                  !.network.timeouts = @ + 1]

\* connect: this.socket = new WebSocket(serverUrl); the socket it replaces
\* stays with the browser unless it is closed
connect(mn) ==
  LET old == mn.manager.socket
      kept == IF old \in SocketStates
                THEN [mn EXCEPT !.network.earlier[old] = @ + 1]
              ELSE mn
  IN [kept EXCEPT !.manager.socket = "connecting",
                  !.network.created = @ + 1]

\* socket.onopen
onopen(mn) ==
  startHeartbeat([mn EXCEPT !.manager.isConnected = TRUE,
                            !.manager.reconnectAttempts = 0])

\* socket.onclose
onclose(mn) ==
  attemptReconnect(stopHeartbeat([mn EXCEPT !.manager.isConnected = FALSE]))

\* disconnect: close the socket and forget it
disconnect(mn) ==
  LET old == mn.manager.socket
      closed == IF old \in SocketStates
                  THEN [mn EXCEPT !.network.earlier["closing"] = @ + 1]
                ELSE mn
  IN stopHeartbeat([closed EXCEPT !.manager.socket = NULL,
                                  !.manager.isConnected = FALSE])

NetInit ==
  /\ manager = NewManager
  /\ network = NewNetwork
  /\ netCall = NetEvent("none", FALSE)
  /\ disconnected = FALSE

\* what the events of the connection leave alone
nonNetVars ==
  <<now, enemies, enemySeq, players, lootDrops, lootSeq, lastSpawnCheck,
    ticks, events, ret, tools, buildings, weaponState, synced, weaponTimers,
    weaponCall, toolCall, buildCall, passVars, terrainVars, collisionVars,
    combatVars, waveVars, lifecycleVars>>

CommitNet(mn, event, sent, byUser) ==
  /\ manager' = mn.manager
  /\ network' = mn.network
  /\ netCall' = NetEvent(event, sent)
  /\ disconnected' = byUser
  /\ UNCHANGED nonNetVars

Both == [manager |-> manager, network |-> network]

\* the game calls connect
Connect ==
  /\ network.created < MaxSockets
  /\ CommitNet(connect(Both), "connect", FALSE, FALSE)

\* the callback of the setTimeout of attemptReconnect calls connect
ReconnectTimeout ==
  /\ network.timeouts > 0
  /\ network.created < MaxSockets
  /\ CommitNet(connect([Both EXCEPT !.network.timeouts = @ - 1]),
            "reconnect", FALSE, disconnected)

\* the socket of the manager opens: onopen sends PLAYER_JOIN
SocketOpens ==
  /\ manager.socket = "connecting"
  /\ LET mn == onopen([Both EXCEPT !.manager.socket = "open"])
     IN CommitNet(mn, "onopen", sendMessage(mn.manager), disconnected)

\* an earlier socket opens
EarlierOpens ==
  /\ network.earlier["connecting"] > 0
  /\ LET mn == onopen([Both EXCEPT !.network.earlier["connecting"] = @ - 1,
                                   !.network.earlier["open"] = @ + 1])
     IN CommitNet(mn, "onopen", sendMessage(mn.manager), disconnected)

\* the socket of the manager fails to open or is closed by the server
SocketCloses ==
  /\ manager.socket \in SocketStates
  /\ CommitNet(onclose([Both EXCEPT !.manager.socket = "closed"]),
            "onclose", FALSE, disconnected)

\* an earlier socket closes
EarlierCloses(state) ==
  /\ network.earlier[state] > 0
  /\ CommitNet(onclose([Both EXCEPT !.network.earlier[state] = @ - 1]),
            "onclose", FALSE, disconnected)

\* the game calls disconnect
Disconnect == CommitNet(disconnect(Both), "disconnect", FALSE, TRUE)

\* an interval of startHeartbeat ticks
Heartbeat ==
  /\ network.intervals > 0
  /\ CommitNet(Both, "heartbeat", manager.isConnected /\ sendMessage(manager),
            disconnected)

\* the game calls sendPlayerPosition
SendPlayerPosition ==
  CommitNet(Both, "sendPlayerPosition",
         manager.isConnected /\ sendMessage(manager), disconnected)

NextNetwork ==
  \/ Connect
  \/ ReconnectTimeout
  \/ SocketOpens
  \/ EarlierOpens
  \/ SocketCloses
  \/ \E state \in SocketStates : EarlierCloses(state)
  \/ Disconnect
  \/ Heartbeat
  \/ SendPlayerPosition

GearInit ==
  /\ weaponTimers = << >>
  /\ weaponCall = NoWeaponCall
  /\ toolCall = NoToolCall
  /\ buildCall = NoBuildCall
  /\ NetInit

NextWeapons ==
  \/ \E slotIndex \in SwitchSlots : SwitchToSlot(slotIndex)
  \/ Fire
  \/ StartReload
  \/ WeaponTimeout
  \/ \E elapsed \in WeaponClockSteps : WeaponClock(elapsed)

\* ------------------------------------------------------------------------
\* CombatSystem (dynamic-music-system.ts, second half).  A ray runs parallel
\* to the x axis: it starts at x = origin, at the distance |lateral| from
\* the axis the agents stand on, and points in direction 1 or -1.  The
\* weapons fired have accuracy 1.0, for which the random spread is 0.
\* ------------------------------------------------------------------------
ENEMY_HIT_RADIUS == 800

PELLET_COUNT == 8

\* the attacker id fireWeapon passes to damageEnemy
SHOOTER == "player"

ENEMY_SYSTEM == "EnemyAISystem"

RayOrigins == {-(10 * Unit), 0}

RayLaterals == {0, ENEMY_HIT_RADIUS, ENEMY_HIT_RADIUS + 1}

RayDirections == {1, -1}

WeaponData ==
  { [damage |-> 25, range |-> 100 * Unit, weaponType |-> "rifle"],
    [damage |-> 80, range |-> 10 * Unit, weaponType |-> "shotgun"] }

\* the agents a shot can meet: each stands at one of two points, alive and
\* unhurt or already dead
CombatPositions == {0, 5 * Unit}

CombatEnemyIds == {1, 2}

CombatEnemies(id) ==
  { NewEnemy(id, p) : p \in CombatPositions }
  \cup { damageEnemyLethal(NewEnemy(id, p), StartTime) : p \in CombatPositions }

CombatPopulations ==
  UNION { { es \in [ids -> UNION { CombatEnemies(id) : id \in ids }] :
              \A id \in ids : es[id].id = id }
          : ids \in { {}, {1}, {1, 2} } }

\* the shooter registers with the enemy system, as the game does each frame
ShooterInputs == { <<SHOOTER, 0, 100>> }

NotFired == [called |-> FALSE]

\* variant: the range test is left out
withinRange_NoLimit(projectionLength, maxDistance) == TRUE

\* if (projectionLength > maxDistance) continue
withinRange(projectionLength, maxDistance) == projectionLength <= maxDistance

\* the loop of performRaycast over the live enemies in Map order, from
\* enemy k on; closest is the hit found so far
RECURSIVE RaycastLoop(_, _, _, _, _, _, _, _)
RaycastLoop(es, k, closest, origin, lateral, direction, maxDistance, damage) ==
  IF k > Cardinal(CombatEnemyIds) THEN closest
  ELSE IF k \notin DOMAIN es \/ ~es[k].isAlive
    THEN RaycastLoop(es, k + 1, closest, origin, lateral, direction,
                     maxDistance, damage)
  ELSE
    LET projectionLength == (es[k].position - origin) * direction
        distanceToEnemy == Abs(lateral)
        skipped == \/ projectionLength < 0
                   \/ ~withinRange(projectionLength, maxDistance)
        closer == /\ distanceToEnemy <= ENEMY_HIT_RADIUS
                  /\ \/ closest = None
                     \/ projectionLength < ValueOf(closest).distance
        hit == [enemyId |-> k, damage |-> damage,
                position |-> [x |-> origin + direction * projectionLength,
                              lateral |-> lateral],
                distance |-> projectionLength]
    IN RaycastLoop(es, k + 1,
                   IF ~skipped /\ closer THEN Some(hit) ELSE closest,
                   origin, lateral, direction, maxDistance, damage)

\* performRaycast: the closest live enemy the ray passes, or None
performRaycast(system, es, origin, lateral, direction, maxDistance, damage) ==
  IF system = NULL THEN None
  ELSE RaycastLoop(es, 1, None, origin, lateral, direction, maxDistance, damage)

\* variant: every pellet of a shotgun carries the damage of the weapon
firedHits_FullDamagePellets(system, es, origin, lateral, direction, weaponData) ==
  LET hit == performRaycast(system, es, origin, lateral, direction,
                            weaponData.range, weaponData.damage)
  IN IF hit = None THEN [hit |-> FALSE, hits |-> << >>]
     ELSE IF weaponData.weaponType = "shotgun"
       THEN [hit |-> TRUE, hits |-> [i \in 1..PELLET_COUNT |-> ValueOf(hit)]]
     ELSE [hit |-> TRUE, hits |-> <<ValueOf(hit)>>]

\* the hits of one shot and the hit flag set with them: eight pellets for
\* a shotgun, one ray otherwise
firedHits(system, es, origin, lateral, direction, weaponData) ==
  IF weaponData.weaponType = "shotgun"
    THEN LET hit == performRaycast(system, es, origin, lateral, direction,
                                   weaponData.range,
                                   weaponData.damage \div PELLET_COUNT)
         IN IF hit = None THEN [hit |-> FALSE, hits |-> << >>]
            ELSE [hit |-> TRUE,
                  hits |-> [i \in 1..PELLET_COUNT |-> ValueOf(hit)]]
  ELSE LET hit == performRaycast(system, es, origin, lateral, direction,
                                 weaponData.range, weaponData.damage)
       IN IF hit = None THEN [hit |-> FALSE, hits |-> << >>]
          ELSE [hit |-> TRUE, hits |-> <<ValueOf(hit)>>]

\* hits.reduce: the first of the hits with the smallest distance
RECURSIVE closestHit(_, _, _)
closestHit(hits, i, closest) ==
  IF i > Len(hits) THEN closest
  ELSE closestHit(hits, i + 1,
                  IF hits[i].distance < closest.distance THEN hits[i]
                  ELSE closest)

\* variant: the trail of a shot that hit still ends at maximum range
trailEnd_AlwaysMaxRange(hits, origin, lateral, direction, range) ==
  [x |-> origin + direction * range, lateral |-> lateral]

\* bulletTrail.end
trailEnd(hits, origin, lateral, direction, range) ==
  IF Len(hits) > 0 THEN closestHit(hits, 2, hits[1]).position
  ELSE [x |-> origin + direction * range, lateral |-> lateral]

\* the loop that applies the damage of the hits, from hit i on; w is the
\* enemy system's state and the callbacks made so far
RECURSIVE ApplyHits(_, _, _, _, _)
ApplyHits(hits, i, w, plrs, time) ==
  IF i > Len(hits) THEN w
  ELSE LET r == damageEnemy(w.enemies, w.lootDrops, w.lootSeq, plrs,
                            hits[i].enemyId, hits[i].damage, SHOOTER, time)
       IN ApplyHits(hits, i + 1,
                    [enemies |-> r.enemies, lootDrops |-> r.lootDrops,
                     lootSeq |-> r.lootSeq,
                     events |-> w.events \o r.events
                                \o <<[type |-> "onHit", hit |-> hits[i]]>>],
                    plrs, time)

\* fireWeapon: the result and the enemy system's state after the call
fireWeapon(system, es, drops, seq, plrs, origin, lateral, direction, weaponData, time) ==
  LET shot == IF system = NULL THEN [hit |-> FALSE, hits |-> << >>]
              ELSE firedHits(system, es, origin, lateral, direction, weaponData)
      hits == shot.hits
      w == ApplyHits(hits, 1,
                     [enemies |-> es, lootDrops |-> drops, lootSeq |-> seq,
                      events |-> << >>],
                     plrs, time)
  IN [result |-> [hit |-> shot.hit, hits |-> hits,
                  bulletTrail |->
                    [start |-> [x |-> origin, lateral |-> lateral],
                     end |-> trailEnd(hits, origin, lateral, direction,
                                      weaponData.range)]],
      world |-> w]

SetEnemySystem ==
  /\ enemySystem' = ENEMY_SYSTEM
  /\ UNCHANGED <<fired, enemyVars, nonCombatVars>>

\* A call of fireWeapon.  The number of loot drops ever created is capped
\* at MaxLoot.
FireWeapon(origin, lateral, direction, weaponData) ==
  LET f == fireWeapon(enemySystem, enemies, lootDrops, lootSeq, players,
                      origin, lateral, direction, weaponData, now)
  IN /\ f.world.lootSeq <= MaxLoot
     /\ fired' = [called |-> TRUE, origin |-> origin, lateral |-> lateral,
                  direction |-> direction, weaponData |-> weaponData,
                  result |-> f.result]
     /\ enemies' = f.world.enemies
     /\ lootDrops' = f.world.lootDrops
     /\ lootSeq' = f.world.lootSeq
     /\ events' = f.world.events
     /\ ret' = Void
     /\ UNCHANGED <<now, enemySeq, players, lastSpawnCheck, ticks>>
     /\ UNCHANGED <<enemySystem, nonCombatVars>>

CombatInit ==
  /\ enemySystem = NULL
  /\ fired = NotFired

\* the combat system over a population of agents: the states the enemy
\* system is in after up to two spawns and any number of lethal hits
InitCombat ==
  /\ enemies \in CombatPopulations
  /\ enemySeq = Cardinal(DOMAIN enemies)
  /\ now = StartTime
  /\ ticks = 0
  /\ players = << >>
  /\ lootDrops = << >>
  /\ lootSeq = 0
  /\ lastSpawnCheck = 0
  /\ events = << >>
  /\ ret = Void
  /\ CollisionInit
  /\ CombatInit
  /\ SyncInit
  /\ WaveInit
  /\ LifecycleInit
  /\ PassInit
  /\ TerrainInit
  /\ GearInit

NextCombat ==
  \/ SetEnemySystem
  \/ \E in \in ShooterInputs : UpdatePlayerInfo(in[1], in[2], in[3])
  \/ \E origin \in RayOrigins, lateral \in RayLaterals,
        direction \in RayDirections, weaponData \in WeaponData :
       FireWeapon(origin, lateral, direction, weaponData)

\* the public methods of EnemyAISystem
EnemyAISystemMethods ==
  { "setTerrainData", "updatePlayerInfo", "removePlayer", "update",
    "damageEnemy", "tryPickupLoot", "getEnemies", "getLootDrops", "getEnemy",
    "onEnemySpawnEvent", "onEnemyDeathEvent", "onEnemyAttackEvent",
    "onLootSpawnEvent", "onLootPickupEvent", "dispose" }

\* Array.from(map.values()): the values of a Map keyed 1, 2, ... in order
RECURSIVE MapValues(_, _, _)
MapValues(map, k, last) ==
  IF k > last THEN << >>
  ELSE IF k \in DOMAIN map THEN <<map[k]>> \o MapValues(map, k + 1, last)
  ELSE MapValues(map, k + 1, last)

getEnemies(es) == MapValues(es, 1, LastEnemyId(es))

getLootDrops(drops) == MapValues(drops, 1, LastKey(drops))

EnemyInit ==
  /\ now = StartTime
  /\ ticks = 0
  /\ enemies = << >>
  /\ enemySeq = 0
  /\ players = << >>
  /\ lootDrops = << >>
  /\ lootSeq = 0
  /\ lastSpawnCheck = 0
  /\ events = << >>
  /\ ret = Void

\* the enemy AI system
Next ==
  \/ \E dt \in DeltaTimes, el \in ClockSteps : Update(dt, el)
  \/ \E in \in PlayerInputs : UpdatePlayerInfo(in[1], in[2], in[3])
  \/ \E p \in PlayerIds : RemovePlayer(p)
  \/ \E e \in EnemyIds, d \in DamageAmounts, a \in PlayerIds :
       DamageEnemy(e, d, a)
  \/ \E p \in {"player"}, l \in DOMAIN lootDrops, o \in PickupOffsets :
       TryPickupLoot(p, lootDrops[l].position + o)

\* ------------------------------------------------------------------------
\* The spawn checks of the enemy AI system as players join and leave.
\* Players join in a fixed order, each at a place of its own, and the one
\* who joined last leaves again.
\* ------------------------------------------------------------------------
SpawnPool == 4

CrowdInputs ==
  << <<"player", 0, 100>>, <<"p2", -(10 * Unit), 100>>,
     <<"p3", 20 * Unit, 100>>, <<"p4", 40 * Unit, 100>>,
     <<"p5", 60 * Unit, 100>> >>

\* Date.now() between two update calls: less than, and more than, the
\* interval between spawn checks
SpawnClockSteps == {SPAWN_CHECK_INTERVAL \div 2, SPAWN_CHECK_INTERVAL + 1}

\* the agents left from earlier in the game when the players join: none, or
\* three standing far from where the players are, the last one possibly dead
EarlierEnemy(id) == NewEnemy(id, (100 + 10 * id) * Unit)

EarlierPopulations ==
  { [id \in 1..n |-> EarlierEnemy(id)] : n \in {0, MAX_ENEMIES_PER_PLAYER} }
  \cup { [id \in 1..MAX_ENEMIES_PER_PLAYER |->
            IF id = MAX_ENEMIES_PER_PLAYER
              THEN damageEnemyLethal(EarlierEnemy(id), StartTime)
            ELSE EarlierEnemy(id)] }

JoinPlayer ==
  /\ Len(players) < Len(CrowdInputs)
  /\ LET in == CrowdInputs[Len(players) + 1]
     IN UpdatePlayerInfo(in[1], in[2], in[3])

LeavePlayer ==
  /\ Len(players) = Len(CrowdInputs)
  /\ RemovePlayer(players[Len(players)].id)

UpdateCrowd(deltaTime, elapsed) == UpdateWithin(SpawnPool, deltaTime, elapsed)

InitSpawning ==
  /\ enemies \in EarlierPopulations
  /\ enemySeq = Cardinal(DOMAIN enemies)
  /\ now = StartTime
  /\ ticks = 0
  /\ players = << >>
  /\ lootDrops = << >>
  /\ lootSeq = 0
  /\ lastSpawnCheck = 0
  /\ events = << >>
  /\ ret = Void
  /\ CollisionInit
  /\ CombatInit
  /\ SyncInit
  /\ WaveInit
  /\ LifecycleInit
  /\ PassInit
  /\ TerrainInit
  /\ GearInit

NextSpawning ==
  \/ \E dt \in DeltaTimes, el \in SpawnClockSteps : UpdateCrowd(dt, el)
  \/ JoinPlayer
  \/ LeavePlayer

\* ------------------------------------------------------------------------
\* update(deltaTime) with an onAttack listener that may call damageEnemy.
\* The listener runs inside performAttack, before updateAttacking writes
\* lastAttackTime, and what it does to the enemies is there at once.
\* ------------------------------------------------------------------------
ListeningIds == {1, 2}

\* two enemies attacking the player from either side
ListeningEnemy(id) ==
  [NewEnemy(id, IF id = 1 THEN 5 * Unit ELSE -(5 * Unit))
     EXCEPT !.state = ATTACKING,
            !.targetPlayerId = "player",
            !.target = Some(0)]

Visit(enemy) == [id |-> enemy.id, isAlive |-> enemy.isAlive]

\* what the listener of an onAttack callback does: nothing, or a call of
\* damageEnemy that kills one of the enemies in the player's name
onEnemyAttack(w, ps, targetId, t) ==
  {w} \cup
  { LET r == damageEnemy(w.es, w.drops, w.lootSeq, ps, victim, HEALTH,
                         targetId, t)
    IN [w EXCEPT !.es = r.enemies, !.drops = r.lootDrops,
                 !.lootSeq = r.lootSeq, !.ev = @ \o r.events]
    : victim \in DOMAIN w.es }

\* updateEnemy for the enemy with key k, the listener included
updateEnemyListening(w, ps, k, deltaTime, t) ==
  UNION {
    IF o.ev = << >>
      THEN {[w EXCEPT !.es[k] = o.enemy]}
      ELSE {[heard EXCEPT !.es[k].lastAttackTime = o.enemy.lastAttackTime]
            : heard \in onEnemyAttack([w EXCEPT !.ev = @ \o o.ev], ps,
                                      o.ev[1].target, t)}
    : o \in updateEnemy(w.es, ps, w.es[k], deltaTime, t) }

\* for (const enemy of this.enemies.values()) this.updateEnemy(...)
RECURSIVE ListeningPass(_, _, _, _, _)
ListeningPass(k, w, ps, deltaTime, t) ==
  IF k > LastEnemyId(w.es) THEN {w}
  ELSE IF k \notin DOMAIN w.es THEN ListeningPass(k + 1, w, ps, deltaTime, t)
  ELSE UNION { ListeningPass(k + 1, w2, ps, deltaTime, t)
               : w2 \in updateEnemyListening(
                          [w EXCEPT !.passed = Append(@, Visit(w.es[k]))],
                          ps, k, deltaTime, t) }

UpdateListening(deltaTime, elapsed) ==
  LET t == now + elapsed
      due == t - lastSpawnCheck > SPAWN_CHECK_INTERVAL
      start == [es |-> enemies, drops |-> lootDrops, lootSeq |-> lootSeq,
                ev |-> << >>, passed |-> << >>]
  IN /\ ticks < MaxTicks
     /\ ticks' = ticks + 1
     /\ now' = t
     /\ \E w \in ListeningPass(1, start, players, deltaTime, t) :
          /\ w.lootSeq <= MaxLoot
          /\ passed' = w.passed
          /\ lootSeq' = w.lootSeq
          /\ lootDrops' = cleanupLoot(w.drops, t)
          /\ \E o \in (IF due THEN checkSpawning(TickStart(w), players)
                               ELSE {TickStart(w)}) :
               /\ o.seq <= SpawnPool
               /\ enemies' = o.es
               /\ enemySeq' = o.seq
               /\ events' = o.ev
     /\ lastSpawnCheck' = IF due THEN t ELSE lastSpawnCheck
     /\ ret' = Void
     /\ UNCHANGED players
     /\ UNCHANGED <<collisionVars, combatVars, syncVars, waveVars,
                    lifecycleVars, terrainVars, gearVars>>

InitListening ==
  /\ enemies = [id \in ListeningIds |-> ListeningEnemy(id)]
  /\ enemySeq = Cardinal(ListeningIds)
  /\ now = StartTime
  /\ ticks = 0
  /\ players = <<[id |-> "player", position |-> 0, health |-> 100,
                  isAlive |-> TRUE]>>
  /\ lootDrops = << >>
  /\ lootSeq = 0
  /\ lastSpawnCheck = StartTime
  /\ events = << >>
  /\ ret = Void
  /\ CollisionInit
  /\ CombatInit
  /\ SyncInit
  /\ WaveInit
  /\ LifecycleInit
  /\ PassInit
  /\ TerrainInit
  /\ GearInit

NextListening ==
  \/ \E dt \in DeltaTimes, el \in {ATTACK_COOLDOWN} : UpdateListening(dt, el)
  \/ \E in \in PlayerInputs : UpdatePlayerInfo(in[1], in[2], in[3])
  \/ \E e \in ListeningIds, d \in {HEALTH \div 2} : DamageEnemy(e, d, "player")

\* ------------------------------------------------------------------------
\* The population of one player who stays connected: kills, spawn checks
\* and respawns.  The game starts with the full population of the player,
\* standing far from the player.
\* ------------------------------------------------------------------------
\* Date.now() between two update calls: just over the interval between
\* spawn checks, or the delay of a respawn
PopulationClockSteps == {SPAWN_CHECK_INTERVAL + 1, RESPAWN_DELAY}

InitPopulation ==
  /\ enemies = [id \in 1..MAX_ENEMIES_PER_PLAYER |-> EarlierEnemy(id)]
  /\ enemySeq = MAX_ENEMIES_PER_PLAYER
  /\ now = StartTime
  /\ ticks = 0
  /\ players = <<[id |-> "player", position |-> 0, health |-> 100,
                  isAlive |-> TRUE]>>
  /\ lootDrops = << >>
  /\ lootSeq = 0
  /\ lastSpawnCheck = StartTime
  /\ events = << >>
  /\ ret = Void
  /\ CollisionInit
  /\ CombatInit
  /\ SyncInit
  /\ WaveInit
  /\ LifecycleInit
  /\ PassInit
  /\ TerrainInit
  /\ GearInit

NextPopulation ==
  \/ \E dt \in DeltaTimes, el \in PopulationClockSteps : UpdateCrowd(dt, el)
  \/ \E e \in 1..SpawnPool : DamageEnemy(e, HEALTH, "player")

\* ------------------------------------------------------------------------
\* Attacks of two enemies on a player who may step away, die or leave,
\* with update called more often than the attack cooldown allows a roll.
\* ------------------------------------------------------------------------
\* Date.now() between two update calls: half the cooldown, or all of it
AttackClockSteps == {ATTACK_COOLDOWN \div 2, ATTACK_COOLDOWN}

\* updatePlayerInfo arguments: the player in reach of both enemies, dead,
\* or out of reach of both
AttackInputs ==
  { <<"player", 0, 100>>, <<"player", 0, 0>>, <<"player", 15 * Unit, 100>> }

NextAttacking ==
  \/ \E dt \in DeltaTimes, el \in AttackClockSteps :
       UpdateWithin(Cardinal(ListeningIds), dt, el)
  \/ \E in \in AttackInputs : UpdatePlayerInfo(in[1], in[2], in[3])
  \/ RemovePlayer("player")
  \/ DamageEnemy(Cardinal(ListeningIds), HEALTH, "player")

\* the tool system some uses and repairs after its construction
InitTools ==
  /\ EnemyInit
  /\ CollisionInit
  /\ CombatInit
  /\ \E h \in HatchetDurabilities, p \in PickaxeDurabilities :
       tools = <<WornTool("hatchet_1", "hatchet", h),
                 WornTool("pickaxe_1", "pickaxe", p)>>
  /\ buildings = << >>
  /\ weaponState = NewWeaponState
  /\ synced = NotSynced
  /\ WaveInit
  /\ LifecycleInit
  /\ PassInit
  /\ TerrainInit
  /\ GearInit

\* the weapon system some shots after its construction
InitWeapons ==
  /\ EnemyInit
  /\ CollisionInit
  /\ CombatInit
  /\ tools = << >>
  /\ buildings = << >>
  /\ \E magazine \in RifleMagazines : weaponState = ArmedState(magazine)
  /\ synced = NotSynced
  /\ WaveInit
  /\ LifecycleInit
  /\ PassInit
  /\ TerrainInit
  /\ GearInit

\* ------------------------------------------------------------------------
\* The chase of one enemy after a player who stays where they are.  The
\* calls of update follow one another within one millisecond of Date.now(),
\* with the frame time of the caller as deltaTime.
\* ------------------------------------------------------------------------
\* deltaTime in ms: the interval of the update loop, and a frame of 5 s
ChaseDeltaTimes == {100, 5000}

\* where the chase starts: distances from ATTACK_RANGE to 1.5 * CHASE_RADIUS
ChaseStarts ==
  { ATTACK_RANGE * Unit, (35 * Unit) \div 4, 9 * Unit, 12 * Unit,
    CHASE_RADIUS * Unit, 29 * Unit, 30 * Unit }

ChasingEnemy(position) ==
  [NewEnemy(1, position) EXCEPT !.state = CHASING,
                                !.targetPlayerId = "player",
                                !.target = Some(0)]

\* update(deltaTime) while Date.now() has not moved on
UpdateAtOnce(deltaTime) ==
  LET due == now - lastSpawnCheck > SPAWN_CHECK_INTERVAL
      afterEnemies == UpdateEnemies(1, enemies, <<>>, players, deltaTime, now)
      afterSpawning == UNION { IF due THEN checkSpawning(TickStart(o), players)
                                      ELSE {TickStart(o)}
                               : o \in afterEnemies }
  IN /\ \E o \in afterSpawning :
          /\ enemies' = o.es
          /\ enemySeq' = o.seq
          /\ events' = o.ev
     /\ lastSpawnCheck' = IF due THEN now ELSE lastSpawnCheck
     /\ lootDrops' = cleanupLoot(lootDrops, now)
     /\ ret' = Void
     /\ UNCHANGED <<now, ticks, players, lootSeq>>
     /\ UNCHANGED nonEnemyVars

InitChasing ==
  /\ \E start \in ChaseStarts : enemies = <<ChasingEnemy(start)>>
  /\ enemySeq = 1
  /\ now = StartTime
  /\ ticks = 0
  /\ players = <<[id |-> "player", position |-> 0, health |-> 100,
                  isAlive |-> TRUE]>>
  /\ lootDrops = << >>
  /\ lootSeq = 0
  /\ lastSpawnCheck = StartTime
  /\ events = << >>
  /\ ret = Void
  /\ CollisionInit
  /\ CombatInit
  /\ SyncInit
  /\ WaveInit
  /\ LifecycleInit
  /\ PassInit
  /\ TerrainInit
  /\ GearInit

NextChasing == \E dt \in ChaseDeltaTimes : UpdateAtOnce(dt)

\* ------------------------------------------------------------------------
\* The life of loot drops: two enemies standing close to each other are
\* killed, their drops lie within reach of one pickup, and time passes
\* until the drops despawn.
\* ------------------------------------------------------------------------
\* Date.now() between two update calls: half of DESPAWN_TIME, and just over
LootClockSteps == {DESPAWN_TIME \div 2, DESPAWN_TIME \div 2 + 1}

LootEnemyIds == {1, 2}

InitLoot ==
  /\ enemies = [id \in LootEnemyIds |-> NewEnemy(id, (110 + id) * Unit)]
  /\ enemySeq = Cardinal(LootEnemyIds)
  /\ now = StartTime
  /\ ticks = 0
  /\ players = <<[id |-> "player", position |-> 0, health |-> 100,
                  isAlive |-> TRUE]>>
  /\ lootDrops = << >>
  /\ lootSeq = 0
  /\ lastSpawnCheck = StartTime
  /\ events = << >>
  /\ ret = Void
  /\ CollisionInit
  /\ CombatInit
  /\ SyncInit
  /\ WaveInit
  /\ LifecycleInit
  /\ PassInit
  /\ TerrainInit
  /\ GearInit

NextLoot ==
  \/ \E dt \in DeltaTimes, el \in LootClockSteps :
       UpdateWithin(SpawnPool, dt, el)
  \/ \E e \in LootEnemyIds : DamageEnemy(e, HEALTH, "player")
  \/ \E l \in DOMAIN lootDrops, o \in PickupOffsets :
       TryPickupLoot("player", lootDrops[l].position + o)
  \/ Dispose

Init ==
  /\ EnemyInit
  /\ CollisionInit
  /\ CombatInit
  /\ SyncInit
  /\ WaveInit
  /\ LifecycleInit
  /\ PassInit
  /\ TerrainInit
  /\ GearInit

Spec == Init /\ [][Next]_vars

SpecCollision == Init /\ [][NextCollision]_vars

SpecCombat == InitCombat /\ [][NextCombat]_vars

SpecSpawning == InitSpawning /\ [][NextSpawning]_vars

SpecSync == Init /\ [][NextSync]_vars

SpecWaves == Init /\ [][NextWaves]_vars

SpecLifecycle == Init /\ [][NextLifecycle]_vars

SpecListening == InitListening /\ [][NextListening]_vars

SpecTerrain == Init /\ [][NextTerrain]_vars

SpecPopulation == InitPopulation /\ [][NextPopulation]_vars

SpecAttacking == InitListening /\ [][NextAttacking]_vars

SpecLoot == InitLoot /\ [][NextLoot]_vars

SpecWeapons == InitWeapons /\ [][NextWeapons]_vars

SpecTools == InitTools /\ [][NextTools]_vars

SpecBuilding == Init /\ [][NextBuilding]_vars

SpecRoundTrip == Init /\ [][NextRoundTrip]_vars

SpecNetwork == Init /\ [][NextNetwork]_vars

\* update is called again and again
SpecChasing ==
  InitChasing /\ [][NextChasing]_vars /\ WF_vars(NextChasing)

\* ------------------------------------------------------------------------
\* Properties of the enemy AI system (specification Spec)
\* ------------------------------------------------------------------------

\* C1: in every reachable state every agent has health 0 exactly when its
\* state is DEAD, and no step takes an agent from DEAD directly into
\* CHASING or ATTACKING.
C1_HealthZeroIffDead ==
  /\ [](\A id \in DOMAIN enemies :
          (enemies[id].health = 0) <=> (enemies[id].state = DEAD))
  /\ [][\A id \in DOMAIN enemies \cap DOMAIN enemies' :
          enemies[id].state = DEAD
            => enemies'[id].state \notin {CHASING, ATTACKING}]_vars

\* C2: targetPlayerId is non-null only in CHASING or ATTACKING; it is null
\* in SPAWNING, PATROLLING, DEAD and RESPAWNING.
C2_TargetOnlyWhenEngaged ==
  \A id \in DOMAIN enemies :
    enemies[id].targetPlayerId # NULL
      => enemies[id].state \in {CHASING, ATTACKING}

\* C3: a dead agent becomes alive only by respawnEnemy inside an update
\* tick, once the time since its death exceeds RESPAWN_DELAY; it then is
\* in SPAWNING with full health.  While it stays dead no call moves it or
\* lets it attack.
C3_RespawnOnlyInTick ==
  [][\A id \in DOMAIN enemies \cap DOMAIN enemies' :
       ~enemies[id].isAlive =>
         IF enemies'[id].isAlive
           THEN /\ ticks' = ticks + 1
                /\ enemies[id].deathTime # NoTime
                /\ now' - enemies[id].deathTime > RESPAWN_DELAY
                /\ enemies'[id].state = SPAWNING
                /\ enemies'[id].health = enemies'[id].maxHealth
                /\ enemies'[id].targetPlayerId = NULL
           ELSE /\ enemies'[id].position = enemies[id].position
                /\ enemies'[id].health = enemies[id].health
                /\ enemies'[id].lastAttackTime = enemies[id].lastAttackTime
                /\ \A i \in 1..Len(events') :
                     ~(events'[i].type = "onAttack" /\ events'[i].enemy = id)]_vars

\* an agent that died, dropped its loot and was respawned by a tick
C3_Witness ==
  \E id \in DOMAIN enemies :
    /\ enemies[id].isAlive
    /\ enemies[id].state = SPAWNING
    /\ lootSeq > 0
    /\ now - StartTime > RESPAWN_DELAY

\* A step is the call damageEnemy(e, d, a) when DamageEnemy(e, d, a) holds of
\* it; only damageEnemy returns a boolean, which is tested first.

C8_DeadOrUnknownNoOp ==
  [][\A e \in EnemyIds, d \in DamageAmounts, a \in PlayerIds :
       ( /\ ret'.kind = "boolean"
         /\ (e \notin DOMAIN enemies \/ ~enemies[e].isAlive)
         /\ DamageEnemy(e, d, a) )
       => /\ ret' = Bool(FALSE)
          /\ events' = << >>
          /\ UNCHANGED <<now, enemies, enemySeq, players, lootDrops, lootSeq,
                         lastSpawnCheck, ticks>>]_vars

\* a dead agent that a damageEnemy call has just left as it was
C8_Witness ==
  /\ ret = Bool(FALSE)
  /\ events = << >>
  /\ \E id \in DOMAIN enemies :
       /\ ~enemies[id].isAlive
       /\ enemies[id].state = DEAD
       /\ enemies[id].deathTime < now

\* C9: damageEnemy returns true exactly when the hit was lethal; the
\* health of a living agent is reduced by the amount, clamped at 0, and
\* the health of every agent stays within 0..maxHealth.
C9_ReturnAndClamp ==
  /\ [](\A id \in DOMAIN enemies :
          enemies[id].health \in 0..enemies[id].maxHealth)
  /\ [][\A e \in EnemyIds, d \in DamageAmounts, a \in PlayerIds :
          (ret'.kind = "boolean" /\ DamageEnemy(e, d, a))
          => /\ (ret' = Bool(TRUE))
                  <=> ( /\ e \in DOMAIN enemies
                        /\ enemies[e].isAlive
                        /\ ~enemies'[e].isAlive
                        /\ enemies'[e].health = 0 )
             /\ (e \in DOMAIN enemies /\ enemies[e].isAlive)
                  => enemies'[e].health = Max(0, enemies[e].health - d)]_vars

\* a hit that was not lethal has been taken
C9_Witness ==
  /\ ret = Bool(FALSE)
  /\ \E id \in DOMAIN enemies :
       /\ enemies[id].isAlive
       /\ enemies[id].health > 0
       /\ enemies[id].health < enemies[id].maxHealth

\* C10: when an agent is in PATROLLING and a live player is strictly inside
\* CHASE_RADIUS with no other live player as close, the next tick leaves
\* the agent in CHASING with that player as targetPlayerId.
C10_PatrolToChase ==
  [][\A id \in DOMAIN enemies, i \in 1..Len(players) :
       ( /\ ticks' = ticks + 1
         /\ enemies[id].state = PATROLLING
         /\ players[i].isAlive
         /\ distanceTo(enemies[id].position, players[i].position)
              < CHASE_RADIUS * Unit
         /\ \A j \in 1..Len(players) :
              (j # i /\ players[j].isAlive)
                => distanceTo(enemies[id].position, players[j].position)
                     > distanceTo(enemies[id].position, players[i].position) )
       => /\ id \in DOMAIN enemies'
          /\ enemies'[id].state = CHASING
          /\ enemies'[id].targetPlayerId = players[i].id]_vars

\* ------------------------------------------------------------------------
\* Properties of the collision system (specification SpecCollision)
\* ------------------------------------------------------------------------
IndexedCells(id) == {k \in DOMAIN spatialGrid : id \in Members(spatialGrid[k])}

\* C4: the 3x3 neighbourhood query around a point returns every registered
\* object within one cell size of the point, objects exactly on a cell
\* boundary included.
C4_NeighbourhoodSuperset ==
  \A p \in QueryPositions : \A id \in DOMAIN collisionObjects :
    distanceTo(p, collisionObjects[id].position) <= gridSize
      => id \in Members(getNearbyObjects(spatialGrid, p))

\* an object exactly on a cell boundary, found from the cell below and
\* from a full cell size away
C4_Witness ==
  \E id \in DOMAIN collisionObjects :
    /\ collisionObjects[id].position = gridSize
    /\ id \in Members(getNearbyObjects(spatialGrid, 0))
    /\ id \in Members(getNearbyObjects(spatialGrid, 2 * gridSize))

\* C5: every registered id is indexed in exactly the 3x3 block of cells
\* around its current position, and no cell holds an unregistered id.
C5_IndexedExactly ==
  /\ \A id \in DOMAIN collisionObjects :
       IndexedCells(id) = KeySet(collisionObjects[id].position)
  /\ \A k \in DOMAIN spatialGrid :
       Members(spatialGrid[k]) \subseteq DOMAIN collisionObjects

\* how far a sphere at position reaches into an object
Penetration(object, position, radius) ==
  CASE object.bounds.kind = "sphere" ->
         radius + object.bounds.radius - Abs(position - object.position)
    [] object.bounds.kind = "box" ->
         IF position < object.bounds.min
           THEN radius - (object.bounds.min - position)
         ELSE IF position > object.bounds.max
           THEN radius - (position - object.bounds.max)
         ELSE radius
    [] OTHER ->
         radius + DEFAULT_OBJECT_RADIUS - Abs(position - object.position)

\* C6: resolveCollision makes at most MAX_COLLISION_ITERATIONS collision
\* tests, and when it returns with no collision left the returned position
\* has no penetration into any registered object within one cell size that
\* is not in excludeIds.
C6_ResolveBoundedAndClear ==
  resolved.called =>
    LET r == resolved.result
    IN /\ r.tests <= MAX_COLLISION_ITERATIONS
       /\ ( \/ r.clear
            \/ ~checkSphereCollision(collisionObjects, spatialGrid,
                                     r.newPosition, resolved.radius,
                                     resolved.excludeIds).hasCollision )
          => \A id \in DOMAIN collisionObjects \ resolved.excludeIds :
               Abs(r.newPosition - collisionObjects[id].position) <= gridSize
                 => Penetration(collisionObjects[id], r.newPosition,
                                resolved.radius) <= 0

\* a call that pushed the sphere out of an object and found it clear
C6_Witness ==
  /\ resolved.called
  /\ resolved.result.clear
  /\ resolved.result.collisionOccurred
  /\ resolved.result.newPosition # resolved.position
  /\ \E id \in DOMAIN collisionObjects \ resolved.excludeIds :
       Abs(resolved.result.newPosition - collisionObjects[id].position)
         <= gridSize

\* ------------------------------------------------------------------------
\* Properties of the combat system (specification SpecCombat)
\* ------------------------------------------------------------------------

\* the scalar projection of agent k's centre onto a ray
Projection(k, origin, direction) == (enemies[k].position - origin) * direction

\* the live agents a ray can hit: projection within [0, range] and centre
\* within the hit radius of the ray
Qualifying(origin, lateral, direction, range) ==
  { k \in DOMAIN enemies :
      /\ enemies[k].isAlive
      /\ Projection(k, origin, direction) >= 0
      /\ Projection(k, origin, direction) <= range
      /\ Abs(lateral) <= ENEMY_HIT_RADIUS }

\* C11: performRaycast returns, among the live agents whose projection onto
\* the ray lies in [0, range] and whose centre is within the hit radius 0.8
\* of the ray, one with the smallest projection, and no hit when no live
\* agent qualifies; an agent behind the origin, beyond range or already
\* dead is never hit.
C11_RaycastClosestLive ==
  \A origin \in RayOrigins, lateral \in RayLaterals,
     direction \in RayDirections, weaponData \in WeaponData :
    LET hit == performRaycast(enemySystem, enemies, origin, lateral,
                              direction, weaponData.range, weaponData.damage)
        Q == Qualifying(origin, lateral, direction, weaponData.range)
    IN enemySystem # NULL
         => IF Q = {} THEN hit = None
            ELSE /\ hit # None
                 /\ ValueOf(hit).enemyId \in Q
                 /\ ValueOf(hit).distance
                      = Projection(ValueOf(hit).enemyId, origin, direction)
                 /\ \A q \in Q : ValueOf(hit).distance
                                   <= Projection(q, origin, direction)

\* a rifle shot has hit the nearer of two live agents standing at different
\* points within range of the ray, with a dead or unreachable case nearby
C11_Witness ==
  /\ fired.called
  /\ fired.weaponData.weaponType = "rifle"
  /\ Len(fired.result.hits) = 1
  /\ \E k, q \in Qualifying(fired.origin, fired.lateral, fired.direction,
                            fired.weaponData.range) :
       /\ fired.result.hits[1].enemyId = k
       /\ Projection(k, fired.origin, fired.direction)
            < Projection(q, fired.origin, fired.direction)

\* the point of a ray at the weapon's maximum range
MaxRangePoint(origin, lateral, direction, range) ==
  [x |-> origin + direction * range, lateral |-> lateral]

\* C12: for every fireWeapon call, result.hit is true exactly when
\* result.hits is non-empty; the bullet trail ends at the contact point of
\* the hit with the smallest distance along the ray when there is a hit, and
\* at the ray's maximum-range point when nothing was hit, also when no enemy
\* system is attached; a miss changes no agent.
C12_HitFlagAndTrail ==
  /\ [](fired.called =>
          LET hits == fired.result.hits
              end == fired.result.bulletTrail.end
          IN /\ fired.result.hit <=> Len(hits) > 0
             /\ Len(hits) > 0
                  => \E i \in 1..Len(hits) :
                       /\ end = hits[i].position
                       /\ \A j \in 1..Len(hits) :
                            hits[i].distance <= hits[j].distance
             /\ Len(hits) = 0
                  => end = MaxRangePoint(fired.origin, fired.lateral,
                                         fired.direction,
                                         fired.weaponData.range))
  /\ [][(/\ fired'.called
          /\ ~fired'.result.hit
          /\ FireWeapon(fired'.origin, fired'.lateral, fired'.direction,
                        fired'.weaponData))
           => /\ enemies' = enemies
              /\ lootDrops' = lootDrops]_vars

\* a shotgun shot has hit an agent short of maximum range
C12_Witness ==
  /\ fired.called
  /\ fired.result.hit
  /\ fired.result.bulletTrail.end
       # MaxRangePoint(fired.origin, fired.lateral, fired.direction,
                       fired.weaponData.range)
  /\ fired.weaponData.weaponType = "shotgun"

\* the rifle of the single-hit scenario: damage 25, range 100, accuracy 1.0
ScenarioRifle == [damage |-> 25, range |-> 100 * Unit, weaponType |-> "rifle"]

\* the single-hit scenario: the only agent stands at the origin, alive with
\* health 100, and the shot is fired from 10 units before it, straight at it
SingleHitShot(k) ==
  /\ enemySystem # NULL
  /\ DOMAIN enemies = {k}
  /\ enemies[k].isAlive
  /\ enemies[k].health = HEALTH
  /\ enemies[k].position = 0
  /\ FireWeapon(-(10 * Unit), 0, 1, ScenarioRifle)

\* C13 as stated: in the single-hit scenario fireWeapon yields exactly one
\* hit record, the agent's health becomes 75, its state is unchanged and it
\* is still alive.
C13_SingleHitStateUnchanged ==
  [][\A k \in CombatEnemyIds :
       SingleHitShot(k)
         => /\ Len(fired'.result.hits) = 1
            /\ enemies'[k].health = 75
            /\ enemies'[k].isAlive
            /\ enemies'[k].state = enemies[k].state]_vars

\* C13, amended: in the single-hit scenario fireWeapon yields exactly one
\* hit record, the agent's health becomes 75 and it is still alive; its
\* state is unchanged when it already has a target or the shooter "player"
\* is not a registered player, and becomes CHASING otherwise.
C13_SingleHit ==
  [][\A k \in CombatEnemyIds :
       SingleHitShot(k)
         => /\ Len(fired'.result.hits) = 1
            /\ fired'.result.hits[1].enemyId = k
            /\ enemies'[k].health = 75
            /\ enemies'[k].isAlive
            /\ enemies'[k].state =
                 IF enemies[k].targetPlayerId = NULL /\ HasPlayer(players, SHOOTER)
                   THEN CHASING
                 ELSE enemies[k].state]_vars

\* the scenario's shot has been fired at an agent spawned at the origin while
\* the shooter was registered: health 75, and the agent chases the shooter
C13_Witness ==
  /\ fired.called
  /\ fired.origin = -(10 * Unit) /\ fired.lateral = 0 /\ fired.direction = 1
  /\ fired.weaponData = ScenarioRifle
  /\ Len(fired.result.hits) = 1
  /\ DOMAIN enemies = {1}
  /\ enemies[1].position = 0
  /\ enemies[1].health = 75
  /\ enemies[1].state = CHASING
  /\ enemies[1].targetPlayerId = SHOOTER

\* ------------------------------------------------------------------------
\* Properties of the spawn checks (specification SpecSpawning)
\* ------------------------------------------------------------------------

\* the step is an update call whose spawn check is due
SpawnCheckStep ==
  /\ ticks' = ticks + 1
  /\ now' - lastSpawnCheck > SPAWN_CHECK_INTERVAL

\* the agents the step has created
CreatedAgents == DOMAIN enemies' \ DOMAIN enemies

\* C14: a spawn check that sees a player count of SPAWN_THRESHOLD or more
\* removes every agent and spawns none, and agents are created only by a
\* spawn check that sees a player count below SPAWN_THRESHOLD.
C14_AgentsOnlyBelowThreshold ==
  [][/\ (SpawnCheckStep /\ Len(players) >= SPAWN_THRESHOLD)
          => /\ enemies' = << >>
             /\ \A i \in 1..Len(events') : events'[i].type # "onSpawn"
     /\ CreatedAgents # {}
          => /\ SpawnCheckStep
             /\ Len(players) < SPAWN_THRESHOLD]_vars

\* a spawn check has just removed the agents spawned earlier, with
\* SPAWN_THRESHOLD players connected
C14_Witness ==
  /\ Len(players) >= SPAWN_THRESHOLD
  /\ enemySeq > 0
  /\ enemies = << >>
  /\ lastSpawnCheck = now

\* the number of agents a spawn check aims at
TargetEnemies == Max(1, Len(players) * MAX_ENEMIES_PER_PLAYER)

AliveEnemies == Cardinal({id \in DOMAIN enemies : enemies[id].isAlive})

SpawnWorld == [es |-> enemies, seq |-> enemySeq, ev |-> << >>]

\* every candidate around every live player fails the minimum-distance check
NoValidCandidate ==
  \A i \in 1..Len(players) : \A o \in SpawnOffsets :
    players[i].isAlive
      => ~isValidSpawnPosition(enemies, players, players[i].position + o)

\* C16: if all 10 candidate points of a spawn-position search fail the
\* minimum-distance check, the spawn attempt creates no agent, emits no
\* onSpawn and leaves the agent set unchanged; the search never tries more
\* than 10 candidates.
C16_FailedSearchSpawnsNothing ==
  /\ \A i \in 1..Len(players) :
       \A s \in spawnSearches(enemies, players, players[i].position) :
         /\ s.attempts <= 10
         /\ s.pos = None => s.attempts = 10
         /\ s.pos # None
              => isValidSpawnPosition(enemies, players, ValueOf(s.pos))
  /\ \A o \in spawnEnemy(SpawnWorld, players) :
       \/ o = SpawnWorld
       \/ /\ DOMAIN o.es = DOMAIN enemies \cup {enemySeq + 1}
          /\ isValidSpawnPosition(enemies, players, o.es[enemySeq + 1].position)
          /\ o.ev = <<[type |-> "onSpawn", enemy |-> enemySeq + 1]>>
  /\ NoValidCandidate => spawnEnemy(SpawnWorld, players) = {SpawnWorld}

\* a spawn check has just spawned an agent next to the only player, and the
\* search around that player can now only fail
C16_Witness ==
  /\ lastSpawnCheck = now
  /\ Len(players) = 1
  /\ players[1].isAlive
  /\ NoValidCandidate
  /\ AliveEnemies < TargetEnemies
  /\ \E i \in 1..Len(events) : events[i].type = "onSpawn"
  /\ \A s \in spawnSearches(enemies, players, players[1].position) :
       s.pos = None /\ s.attempts = MAX_SPAWN_ATTEMPTS

\* ------------------------------------------------------------------------
\* State synchronisation
\* ------------------------------------------------------------------------

\* C17: the enemy director offers exportState and importState, such that
\* importState(exportState()) reproduces an observably identical agent and
\* loot-drop set.
C17_StateRoundTrip ==
  LET snapshot == [agents |-> getEnemies(enemies),
                   lootDrops |-> getLootDrops(lootDrops)]
  IN /\ Len(snapshot.agents) = Cardinal(DOMAIN enemies)
     /\ Len(snapshot.lootDrops) = Cardinal(DOMAIN lootDrops)
     /\ "exportState" \in EnemyAISystemMethods
     /\ "importState" \in EnemyAISystemMethods

\* C18: applying a sync snapshot fully replaces the receiver's synchronized
\* state, with no partial merge: after applyStateFromSync(s) the state is
\* exactly what s describes, whatever the state was before the call.  This
\* holds for the tool set, the building set and the weapon slots.
C18_SnapshotReplacesState ==
  [][/\ (/\ synced'.system = "tools"
         /\ synced'.payload \in ToolSnapshots
         /\ ApplyToolSync(synced'.payload))
          => toolsForSync(tools') = synced'.payload
     /\ (/\ synced'.system = "buildings"
         /\ synced'.payload \in BuildingSnapshots
         /\ ApplyBuildingSync(synced'.payload))
          => buildingsForSync(buildings') = synced'.payload
     /\ (/\ synced'.system = "weapons"
         /\ synced'.payload \in WeaponSnapshots
         /\ ApplyWeaponSync(synced'.payload))
          => weaponsForSync(weaponState') = synced'.payload]_vars

\* a snapshot holding one worn pickaxe has replaced a tool set that held
\* other tools: none of them is left
C18_Witness ==
  /\ synced.system = "tools"
  /\ synced.payload = toolsForSync(<<Tool("pickaxe_1", "pickaxe", 79)>>)
  /\ tools = <<Tool("pickaxe_1", "pickaxe", 79)>>
  /\ weaponState # NewWeaponState
  /\ buildings # << >>

\* C19: a sync payload that lacks a required field or carries an unknown
\* tag is rejected as a whole: the receiver's state after the call equals
\* its state before the call, with no entry applied and nothing cleared.
C19_BadPayloadRejected ==
  [][/\ (/\ synced'.system = "tools"
         /\ ~WellFormedTools(synced'.payload)
         /\ ApplyToolSync(synced'.payload))
          => tools' = tools
     /\ (/\ synced'.system = "buildings"
         /\ ~WellFormedBuildings(synced'.payload)
         /\ ApplyBuildingSync(synced'.payload))
          => buildings' = buildings
     /\ (/\ synced'.system = "weapons"
         /\ ~WellFormedWeapons(synced'.payload)
         /\ ApplyWeaponSync(synced'.payload))
          => weaponState' = weaponState]_vars

\* ------------------------------------------------------------------------
\* Properties of the wave management (specification SpecWaves)
\* ------------------------------------------------------------------------
Starts(ns) == SelectSeq(ns, LAMBDA n : n.kind = "starting")

Clears(ns) == SelectSeq(ns, LAMBDA n : n.kind = "cleared")

CoolingDown == \E i \in DOMAIN waveTimers : waveTimers[i].remaining > 0

\* C20: a wave is cleared only when its kill counter has reached the wave's
\* target and no enemy is alive; after a wave is cleared no wave is in
\* progress until the cooldown of 10 s has elapsed, and then exactly one
\* wave start follows, for wave N+1 (none after wave 10).  This holds for
\* every wave, wave 1 included; the start of wave 1 when the game becomes
\* active is the one start that follows no clearing.
C20_WaveCooldown ==
  [][/\ Clears(notified') # << >>
          => /\ waveEnemiesKilled >= getWaveEnemyCount(currentWave)
             /\ aliveEnemies = 0
             /\ Clears(notified') = <<Notification("cleared", currentWave)>>
     /\ CoolingDown' => ~waveInProgress'
     /\ (Starts(notified') # << >> /\ isGameActive)
          => /\ waveTimers # << >>
             /\ waveTimers[1].remaining = 0
             /\ waveTimers[1].wave < MAX_WAVES
             /\ Starts(notified')
                  = <<Notification("starting", waveTimers[1].wave + 1)>>
     /\ (/\ waveTimers # << >>
         /\ waveTimers[1].remaining = 0
         /\ waveTimers[1].wave = MAX_WAVES
         /\ TimerFire)
          => Starts(notified') = << >>]_vars

\* C21: the wave target enemy count is non-decreasing in the wave number and
\* never exceeds the cap of 10: for every wave N the game has reached,
\* getWaveEnemyCount(N) <= 10, and getWaveEnemyCount(N + 1) >=
\* getWaveEnemyCount(N) when N is below the last wave.
C21_WaveTargetMonotoneCapped ==
  \A N \in 1..currentWave :
    /\ getWaveEnemyCount(N) <= 10
    /\ N < MAX_WAVES => getWaveEnemyCount(N + 1) >= getWaveEnemyCount(N)

\* the last wave is in progress, with a target above that of the first wave
C21_Witness ==
  /\ currentWave = MAX_WAVES
  /\ waveInProgress
  /\ getWaveEnemyCount(currentWave) > getWaveEnemyCount(1)
  /\ waveEnemiesKilled = getWaveEnemyCount(currentWave)

\* ------------------------------------------------------------------------
\* Teardown (specification SpecLifecycle)
\* ------------------------------------------------------------------------
DisposedLast(system) ==
  /\ Len(disposals') = Len(disposals) + 1
  /\ disposals'[Len(disposals')].system = system

DisposedBefore(system) ==
  \E i \in DOMAIN disposals : disposals[i].system = system

\* C22: disposing stops the periodic update timer, so that no timer-driven
\* tick happens after it, and leaves the enemies, the loot drops and the
\* spatial index empty; a second dispose leaves the state as the first
\* left it.
C22_DisposeStopsAndClears ==
  [][/\ DisposedLast("EnemyAISystem")
          => /\ updateInterval' = NULL
             /\ enemies' = << >>
             /\ lootDrops' = << >>
             /\ ret' = Void
     /\ DisposedLast("EnhancedCollisionSystem")
          => /\ spatialGrid' = << >>
             /\ collisionObjects' = << >>
     /\ DisposedBefore("EnemyAISystem") => ticks' = ticks
     /\ (DisposedBefore("EnemyAISystem") /\ DisposedLast("EnemyAISystem"))
          => /\ updateInterval' = updateInterval
             /\ enemies' = enemies
             /\ lootDrops' = lootDrops
     /\ (/\ DisposedBefore("EnhancedCollisionSystem")
         /\ DisposedLast("EnhancedCollisionSystem")
         /\ collisionObjects = << >>)
          => spatialGrid' = spatialGrid]_vars

\* the enemy system was disposed of with an enemy or a drop in it, and again
\* afterwards, when ticks were still to come; the collision system was
\* disposed of with an object in it
C22_Witness ==
  /\ Len(disposals) = 3
  /\ disposals[1].system = "EnemyAISystem"
  /\ disposals[1].found > 0
  /\ disposals[2].system = "EnemyAISystem"
  /\ disposals[3].system = "EnhancedCollisionSystem"
  /\ disposals[3].found > 0
  /\ ticks < MaxTicks
  /\ enemies = << >>
  /\ spatialGrid = << >>

\* ------------------------------------------------------------------------
\* The per-enemy pass under a listener (specification SpecListening)
\* ------------------------------------------------------------------------
\* the keys of a map in increasing order
RECURSIVE KeysFrom(_, _)
KeysFrom(map, k) ==
  IF k > LastKey(map) THEN << >>
  ELSE IF k \in DOMAIN map THEN <<k>> \o KeysFrom(map, k + 1)
  ELSE KeysFrom(map, k + 1)

\* C23: within one update the enemies are not changed under the pass that
\* iterates them: each enemy present at the start of the tick is visited
\* exactly once, enemies are added only after the pass, and a death, also
\* one that a damageEnemy call of an onAttack listener brings about, does
\* not take effect in the middle of the pass: every enemy is visited as
\* alive or dead as it was when the tick started.
C23_SinglePassNoReentrantDeath ==
  [][ticks' # ticks
       => /\ [i \in 1..Len(passed') |-> passed'[i].id] = KeysFrom(enemies, 1)
          /\ \A i \in 1..Len(passed') :
               passed'[i].isAlive = enemies[passed'[i].id].isAlive]_vars

\* ------------------------------------------------------------------------
\* Terrain height (specification SpecTerrain)
\* ------------------------------------------------------------------------
\* the point lies in no cell of the grid
OutsideGrid(x, z, grid) ==
  LET column == (x + (Len(grid) * Unit) \div 2) \div Unit
      row == (z + (Len(grid) * Unit) \div 2) \div Unit
  IN  \/ column < 0 \/ column >= Len(grid)
      \/ row < 0 \/ row >= Len(grid)

\* C24: ground-height sampling returns 0, and does not fail, for an empty
\* height grid and for every (x, z) outside the grid; this holds for the
\* sampler of the enemy system, of the collision system and of the player
\* system.
C24_HeightZeroOutsideGrid ==
  (/\ sampled.sampler # "none"
   /\ sampled.grid = << >> \/ OutsideGrid(sampled.x, sampled.z, sampled.grid))
    => sampled.result = Number(0)

\* ------------------------------------------------------------------------
\* The state machine of an enemy (specification Spec)
\* ------------------------------------------------------------------------
LiveStates == {SPAWNING, PATROLLING, CHASING, ATTACKING}

StateTable ==
  { <<SPAWNING, PATROLLING>>, <<PATROLLING, CHASING>>,
    <<CHASING, PATROLLING>>, <<CHASING, ATTACKING>>,
    <<ATTACKING, CHASING>>, <<DEAD, SPAWNING>> }

\* C25: every state change of an enemy is a transition of the state table:
\* SPAWNING to PATROLLING, PATROLLING to CHASING, CHASING to PATROLLING or
\* ATTACKING, ATTACKING to CHASING, DEAD to SPAWNING through respawn, and,
\* by a damageEnemy call, any live state to DEAD or to CHASING.  PATROLLING
\* is entered only from SPAWNING or CHASING, under any interleaving of
\* update, damageEnemy and removePlayer.
C25_StateTable ==
  [][\A id \in DOMAIN enemies \cap DOMAIN enemies' :
       LET from == enemies[id].state
           to == enemies'[id].state
       IN \/ from = to
          \/ <<from, to>> \in StateTable
          \/ /\ ret'.kind = "boolean"
             /\ from \in LiveStates
             /\ to \in {DEAD, CHASING}]_vars

\* ------------------------------------------------------------------------
\* The population of one player (specification SpecPopulation)
\* ------------------------------------------------------------------------
\* C26: while the connected players are the same and fewer than the spawn
\* threshold, the number of living enemies never exceeds the target
\* population max(1, players * MAX_ENEMIES_PER_PLAYER), whatever the
\* sequence of kills, spawn checks and respawns of dead enemies.
C26_PopulationWithinTarget ==
  Len(players) < SPAWN_THRESHOLD => AliveEnemies <= TargetEnemies

\* ------------------------------------------------------------------------
\* The separation step of resolveCollision (specification SpecCollision)
\* ------------------------------------------------------------------------
\* the moves of the last resolveCollision call, one for each iteration that
\* found a collision: where the sphere was, the collision, where it went
RECURSIVE ResolveMoves(_, _, _)
ResolveMoves(i, r, moves) ==
  IF ~(i < MAX_COLLISION_ITERATIONS) THEN moves
  ELSE LET collision ==
             checkSphereCollision(collisionObjects, spatialGrid, r.newPosition,
                                  resolved.radius, resolved.excludeIds)
           next == separate(r, resolved.radius, collision)
       IN IF ~collision.hasCollision THEN moves
          ELSE ResolveMoves(i + 1, next,
                            Append(moves, [from |-> r.newPosition,
                                           collision |-> collision,
                                           to |-> next.newPosition]))

\* C27: in each iteration of resolveCollision that finds a collision, the
\* position is moved along the contact normal by exactly penetration +
\* epsilon (epsilon = 0.01), penetration being the overlap depth reported
\* for that collision.
C27_SeparationByPenetration ==
  resolved.called =>
    LET moves == ResolveMoves(0, [newPosition |-> resolved.position,
                                  newVelocity |-> resolved.velocity,
                                  collisionOccurred |-> FALSE,
                                  tests |-> 0, clear |-> FALSE], << >>)
    IN /\ moves # << >>
            => moves[Len(moves)].to = resolved.result.newPosition
       /\ \A i \in 1..Len(moves) :
            moves[i].to = moves[i].from
                            + moves[i].collision.normal
                                * (moves[i].collision.penetration
                                     + SEPARATION_MARGIN)

\* C28: every respawn leaves the enemy with health = maxHealth, in state
\* SPAWNING, with no target and no deathTime, at a position near its
\* original spawn point: however often the enemy has respawned, its
\* position is within the spawn radius of the spawn point it was created
\* with.
C28_RespawnNearOrigin ==
  [][\A id \in 1..MAX_ENEMIES_PER_PLAYER :
       (/\ id \in DOMAIN enemies \cap DOMAIN enemies'
        /\ ~enemies[id].isAlive
        /\ enemies'[id].isAlive)
         => /\ enemies'[id].health = enemies'[id].maxHealth
            /\ enemies'[id].state = SPAWNING
            /\ enemies'[id].target = None
            /\ enemies'[id].targetPlayerId = NULL
            /\ enemies'[id].deathTime = NoTime
            /\ distanceTo(enemies'[id].position, EarlierEnemy(id).spawnPoint)
                 <= SPAWN_RADIUS_MAX * Unit]_vars

\* C29: non-lethal damage to a living enemy that has no target makes the
\* attacker its target and puts it in CHASING in that same call, for every
\* attackerId; non-lethal damage to an enemy that already has a target
\* leaves its target and state unchanged.
C29_DamageAdoptsAttacker ==
  [][\A e \in EnemyIds, d \in DamageAmounts, a \in PlayerIds :
       (/\ ret'.kind = "boolean"
        /\ e \in DOMAIN enemies
        /\ enemies[e].isAlive
        /\ enemies[e].health - d > 0
        /\ DamageEnemy(e, d, a))
         => IF enemies[e].targetPlayerId = NULL
              THEN /\ enemies'[e].targetPlayerId = a
                   /\ enemies'[e].state = CHASING
              ELSE /\ enemies'[e].targetPlayerId = enemies[e].targetPlayerId
                   /\ enemies'[e].target = enemies[e].target
                   /\ enemies'[e].state = enemies[e].state]_vars

\* an onAttack event of the last call
Attacks == {i \in 1..Len(events) : events[i].type = "onAttack"}

\* C30: an enemy emits onAttack only while it is alive and ATTACKING a
\* living, registered player within 1.2 * ATTACK_RANGE, always with damage
\* ATTACK_DAMAGE and the id of that player; two attack rolls of one enemy
\* are at least ATTACK_COOLDOWN apart, so that it emits at most one
\* onAttack per cooldown window, however often update is called.
C30_AttackGuardedAndSpaced ==
  [][/\ \A i \in Attacks' :
          LET attack == events'[i]
              e == attack.enemy
          IN /\ e \in DOMAIN enemies
             /\ enemies[e].isAlive
             /\ enemies[e].state = ATTACKING
             /\ attack.target = enemies[e].targetPlayerId
             /\ HasPlayer(players, attack.target)
             /\ GetPlayer(players, attack.target).isAlive
             /\ 10 * distanceTo(enemies[e].position,
                                GetPlayer(players, attack.target).position)
                  <= 12 * ATTACK_RANGE * Unit
             /\ attack.damage = ATTACK_DAMAGE
             /\ now' - enemies[e].lastAttackTime >= ATTACK_COOLDOWN
             /\ e \in DOMAIN enemies' => enemies'[e].lastAttackTime = now'
             /\ \A j \in Attacks' : events'[j].enemy = e => j = i
     /\ \A e \in DOMAIN enemies \cap DOMAIN enemies' :
          enemies'[e].lastAttackTime # enemies[e].lastAttackTime
            => enemies'[e].lastAttackTime - enemies[e].lastAttackTime
                 >= ATTACK_COOLDOWN]_vars

\* an enemy hits on the third of three calls of update that are half a
\* cooldown apart
C30_Witness ==
  /\ ticks = 3
  /\ now = StartTime + 3 * (ATTACK_COOLDOWN \div 2)
  /\ \E i \in Attacks :
       /\ events[i].enemy \in DOMAIN enemies
       /\ enemies[events[i].enemy].lastAttackTime = now

\* the distance of the chasing enemy to the player
ChaseDistance == distanceTo(enemies[1].position, players[1].position)

LootRemoved == DOMAIN lootDrops \ DOMAIN lootDrops'
LootCreated == DOMAIN lootDrops' \ DOMAIN lootDrops

\* C32: a loot drop exists from the death that creates it until it is
\* picked up or its despawn time has passed, and nothing else short of
\* dispose removes it; tryPickupLoot removes and returns at most one drop,
\* one within PICKUP_RADIUS of the player, and emits onLootPickup once for
\* it, so that no drop is picked up twice.
C32_LootLifetime ==
  [][/\ \A id \in LootCreated :
          /\ id > lootSeq
          /\ \E i \in 1..Len(events') :
               /\ events'[i].type = "onDeath"
               /\ events'[i].loot = id
               /\ enemies[events'[i].enemy].isAlive
               /\ ~enemies'[events'[i].enemy].isAlive
               /\ lootDrops'[id].position = enemies[events'[i].enemy].position
     /\ \A id \in DOMAIN lootDrops \cap DOMAIN lootDrops' :
          lootDrops'[id] = lootDrops[id]
     /\ \A id \in LootRemoved :
          \/ /\ ret' = Loot(Some(id))
             /\ LootRemoved = {id}
          \/ /\ ticks' = ticks + 1
             /\ now' - lootDrops[id].spawnTime > DESPAWN_TIME
          \/ disposals' # disposals
     /\ \A l \in DOMAIN lootDrops, o \in PickupOffsets :
          (/\ ret'.kind = "loot"
           /\ TryPickupLoot("player", lootDrops[l].position + o))
            => IF ret' = Loot(None)
                 THEN /\ lootDrops' = lootDrops
                      /\ events' = << >>
                      /\ \A id \in DOMAIN lootDrops :
                           distanceTo(lootDrops[l].position + o,
                                      lootDrops[id].position)
                             > PICKUP_RADIUS * Unit
                 ELSE /\ LootRemoved = {ValueOf(ret'.value)}
                      /\ distanceTo(lootDrops[l].position + o,
                                    lootDrops[ValueOf(ret'.value)].position)
                           <= PICKUP_RADIUS * Unit
                      /\ events' = <<[type |-> "onLootPickup",
                                      loot |-> ValueOf(ret'.value),
                                      player |-> "player"]>>]_vars

\* one of two drops within reach of the player has just been picked up,
\* and the other one is still there
C32_Witness ==
  /\ ret.kind = "loot"
  /\ ret # Loot(None)
  /\ \E id \in DOMAIN lootDrops :
       distanceTo(lootDrops[id].position, (110 + 1) * Unit)
         <= PICKUP_RADIUS * Unit

\* the health of all enemies from enemy k on
RECURSIVE HealthFrom(_, _)
HealthFrom(es, k) ==
  IF k > Cardinal(CombatEnemyIds) THEN 0
  ELSE (IF k \in DOMAIN es THEN es[k].health ELSE 0) + HealthFrom(es, k + 1)

\* C33: for the shotgun the single-ray test runs once for each of the 8
\* pellets and every hit carries damage / 8, so that one shot yields at
\* most 8 hit records and takes at most the damage of the weapon from the
\* health of the enemies in total; for a single-projectile weapon one shot
\* yields at most one hit record, which carries the full damage.
C33_PelletDamage ==
  [][(/\ fired'.called
      /\ FireWeapon(fired'.origin, fired'.lateral, fired'.direction,
                    fired'.weaponData))
       => LET hits == fired'.result.hits
              weaponData == fired'.weaponData
              projectiles == IF weaponData.weaponType = "shotgun"
                               THEN PELLET_COUNT ELSE 1
              ray == performRaycast(enemySystem, enemies, fired'.origin,
                                    fired'.lateral, fired'.direction,
                                    weaponData.range,
                                    weaponData.damage \div projectiles)
          IN /\ Len(hits) <= projectiles
             /\ Len(hits) = (IF ray = None THEN 0 ELSE projectiles)
             /\ \A i \in 1..Len(hits) :
                  /\ hits[i] = ValueOf(ray)
                  /\ hits[i].damage * projectiles = weaponData.damage
             /\ HealthFrom(enemies, 1) - HealthFrom(enemies', 1)
                  <= weaponData.damage
             /\ HealthFrom(enemies, 1) - HealthFrom(enemies', 1) >= 0]_vars

\* the 8 pellets of a shotgun have hit an unhurt enemy, which is left with
\* its health less the damage of the weapon
C33_Witness ==
  /\ fired.called
  /\ fired.weaponData.weaponType = "shotgun"
  /\ Len(fired.result.hits) = PELLET_COUNT
  /\ \E k \in DOMAIN enemies :
       /\ k = fired.result.hits[1].enemyId
       /\ enemies[k].health = HEALTH - fired.weaponData.damage

\* the weapon in a slot of a weapon state
WeaponIn(state, slot) == ValueOf(state.slots[slot].weapon)

\* C34: startReload begins a reload whenever the magazine of the current
\* weapon is below its capacity, its reserve is above 0 and no reload or
\* switch is in progress, and firing the last round with reserve left
\* starts one by itself; when the reload completes, magazine + reserve is
\* unchanged, the magazine does not exceed the capacity and isReloading is
\* false again.
C34_ReloadRefillsMagazine ==
  [][/\ (/\ weaponCall'.method = "startReload"
          /\ StartReload
          /\ getCurrentWeapon(weaponState) # None
          /\ ~weaponState.isReloading
          /\ ~weaponState.isSwitching
          /\ ValueOf(getCurrentWeapon(weaponState)).ammo.reserve > 0
          /\ ValueOf(getCurrentWeapon(weaponState)).ammo.current
               < TemplateAmmo(ValueOf(getCurrentWeapon(weaponState)).id))
           => /\ weaponCall'.result
              /\ weaponState'.isReloading
     /\ (/\ weaponCall'.method = "fire"
          /\ weaponCall'.result
          /\ Fire
          /\ ValueOf(getCurrentWeapon(weaponState')).ammo.current = 0
          /\ ValueOf(getCurrentWeapon(weaponState')).ammo.reserve > 0)
           => weaponState'.isReloading
     /\ (/\ weaponCall'.method = "timeout"
          /\ weaponState.isReloading
          /\ ~weaponState'.isReloading)
           => \A slot \in DOMAIN weaponState.slots :
                weaponState.slots[slot].weapon # None
                  => /\ WeaponIn(weaponState', slot).ammo.current
                          + WeaponIn(weaponState', slot).ammo.reserve
                        = WeaponIn(weaponState, slot).ammo.current
                            + WeaponIn(weaponState, slot).ammo.reserve
                     /\ WeaponIn(weaponState', slot).ammo.current
                          <= TemplateAmmo(WeaponIn(weaponState, slot).id)]_vars

\* C35: two successful switchToSlot calls are at least SWITCH_COOLDOWN
\* apart; a switch is refused without any change of state while a reload
\* is in progress and for a locked or an empty slot; and after a successful
\* switch canFire stays false for the whole SWITCH_COOLDOWN that follows
\* it, however the switch calls and the timeouts of earlier switches
\* interleave.
C35_SwitchCooldown ==
  /\ [][\A slotIndex \in SwitchSlots :
          (/\ weaponCall'.method = "switchToSlot"
           /\ weaponCall'.argument = slotIndex
           /\ SwitchToSlot(slotIndex))
            => /\ weaponCall'.result
                    => now - weaponState.lastSwitchTime >= SWITCH_COOLDOWN
               /\ (\/ weaponState.isReloading
                   \/ slotIndex \notin DOMAIN weaponState.slots
                   \/ ~weaponState.slots[slotIndex].isUnlocked
                   \/ weaponState.slots[slotIndex].weapon = None)
                    => /\ ~weaponCall'.result
                       /\ weaponState' = weaponState
                       /\ weaponTimers' = weaponTimers]_vars
  /\ [](now - weaponState.lastSwitchTime < SWITCH_COOLDOWN
          => ~canFire(weaponState, now))

\* the reasons for which useTool refuses a use
ToolRefused(ts, toolId, targetType, t) ==
  \/ ~HasTool(ts, toolId)
  \/ getTool(ts, toolId).durability = 0
  \/ t - getTool(ts, toolId).lastUseTime < getTool(ts, toolId).cooldown
  \/ ~isValidToolTarget(getTool(ts, toolId).type, targetType)

ToolBreaks == {i \in 1..Len(toolCall.events) :
                 toolCall.events[i].type = "onToolBreak"}

\* C36: after any sequence of useTool and repairTool calls with repair
\* amounts >= 0 every tool has 0 <= durability <= maxDurability; useTool on
\* a tool that is broken, cooling down or unknown, or with the wrong target
\* type, returns success = false and changes nothing; and onToolBreak is
\* emitted exactly on the use that takes the durability to 0.
C36_DurabilityBounds ==
  /\ [](\A i \in 1..Len(tools) :
          /\ tools[i].durability >= 0
          /\ tools[i].durability <= tools[i].maxDurability)
  /\ [][\A toolId \in ToolIdsUsed, targetType \in TargetTypes :
          (/\ toolCall'.method = "useTool"
           /\ toolCall'.toolId = toolId
           /\ toolCall'.argument = targetType
           /\ UseTool(toolId, targetType))
            => IF ToolRefused(tools, toolId, targetType, now)
                 THEN /\ ~toolCall'.result.success
                      /\ tools' = tools
                      /\ toolCall'.events = << >>
                 ELSE /\ toolCall'.result.success
                      /\ ToolBreaks' # {}
                           <=> (/\ getTool(tools, toolId).durability > 0
                                /\ getTool(tools', toolId).durability = 0)
                      /\ \A i \in ToolBreaks' :
                           /\ toolCall'.events[i].tool = toolId
                           /\ \A j \in ToolBreaks' : j = i]_vars
  /\ [](toolCall.method # "useTool" => ToolBreaks = {})

\* a use of the pickaxe, which loses 2 a use, has broken it and emitted
\* onToolBreak after its cooldown had passed
C36_Witness ==
  /\ toolCall.method = "useTool"
  /\ toolCall.toolId = "pickaxe_1"
  /\ toolCall.result.toolBroken
  /\ toolCall.result.durabilityLoss > 1
  /\ ToolBreaks # {}
  /\ getTool(tools, "pickaxe_1").durability = 0
  /\ now >= StartTime + ToolCooldown("pickaxe")

\* ------------------------------------------------------------------------
\* Properties of the building system (specification SpecBuilding)
\* ------------------------------------------------------------------------
BoxOf(building) == createBoundingBox(building.position, building.dimensions)

\* C38: after any sequence of placeBuilding, removeBuilding and
\* applyStateFromSync calls no two buildings of the building set have
\* intersecting bounding boxes; and a placement that validatePlacement
\* reports as valid is within MAX_PLACEMENT_DISTANCE of the player and
\* overlaps no existing building.
C38_NoOverlap ==
  /\ [](\A i, j \in 1..Len(buildings) :
          i # j => ~intersectsBox(BoxOf(buildings[i]), BoxOf(buildings[j])))
  /\ [][(/\ buildCall' # buildCall
          /\ buildCall'.method = "validatePlacement"
          /\ buildCall'.result.isValid)
           => /\ Abs(buildCall'.playerPosition
                       - buildCall'.result.snappedPosition)
                   <= MAX_PLACEMENT_DISTANCE * Unit
              /\ \A i \in 1..Len(buildings) :
                   ~intersectsBox(
                      createBoundingBox(buildCall'.result.snappedPosition,
                                        TemplateWidth(buildCall'.type)),
                      BoxOf(buildings[i]))]_vars

\* C37: for the tool, weapon and building systems
\* applyStateFromSync(getStateForSync()) leaves the synchronized state
\* unchanged: the same tools with the same durabilities, the same current
\* slot, slot weapons, unlock flags and ammo counts, and the same buildings
\* with the same ids, positions and rotations; and applying the same
\* snapshot twice gives the same state as applying it once.
C37_SyncRoundTrip ==
  [][/\ (/\ RoundTripped(synced')
         /\ synced'.system = "tools"
         /\ RoundTripTools)
          => tools' = tools
     /\ (/\ RoundTripped(synced')
         /\ synced'.system = "buildings"
         /\ RoundTripBuildings)
          => buildings' = buildings
     /\ (/\ RoundTripped(synced')
         /\ synced'.system = "weapons"
         /\ RoundTripWeapons)
          => weaponState' = weaponState
     /\ (/\ ~RoundTripped(synced')
         /\ synced'.system = "tools"
         /\ ApplyToolSync(synced'.payload))
          => applyToolSync(tools', synced'.payload).tools = tools'
     /\ (/\ ~RoundTripped(synced')
         /\ synced'.system = "buildings"
         /\ ApplyBuildingSync(synced'.payload))
          => applyBuildingSync(buildings', synced'.payload).buildings
               = buildings'
     /\ (/\ ~RoundTripped(synced')
         /\ synced'.system = "weapons"
         /\ ApplyWeaponSync(synced'.payload))
          => applyWeaponSync(weaponState', synced'.payload).state
               = weaponState']_vars

\* the building system has gone through a round trip with a turned building
\* in its set that was placed here, next to a tool set and a weapon state
\* that came from peers
C37_Witness ==
  /\ RoundTripped(synced)
  /\ synced.system = "buildings"
  /\ buildCall.method = "placeBuilding"
  /\ \E i \in 1..Len(buildings) :
       /\ buildings[i].rotation.y # 0
       /\ buildings[i].id = BuildingId(now, 1)
  /\ tools = <<Tool("pickaxe_1", "pickaxe", 79)>>
  /\ weaponState.slots[1].weapon # None
  /\ ValueOf(weaponState.slots[1].weapon).ammo = 5

\* ------------------------------------------------------------------------
\* Properties of the connection (specification SpecNetwork)
\* ------------------------------------------------------------------------
\* C39: after disconnect() the multiplayer manager stays disconnected: no
\* reconnection attempt is scheduled and no message is sent until connect
\* is called again; after an unexpected close at most maxReconnectAttempts
\* (5) reconnection attempts are made before it gives up, and the counter
\* resets only on a successful open.
C39_DisconnectIsFinal ==
  /\ [](disconnected => ~manager.isConnected)
  /\ [][(disconnected /\ disconnected')
          => /\ network'.timeouts <= network.timeouts
             /\ netCall'.event # "reconnect"
             /\ ~netCall'.sent]_vars
  /\ [](manager.reconnectAttempts <= maxReconnectAttempts)
  /\ [][network'.timeouts > network.timeouts
          => /\ manager.reconnectAttempts < maxReconnectAttempts
             /\ manager'.reconnectAttempts = manager.reconnectAttempts + 1]_vars
  /\ [][manager'.reconnectAttempts < manager.reconnectAttempts
          => /\ netCall'.event = "onopen"
             /\ manager'.reconnectAttempts = 0
             /\ manager'.isConnected]_vars

====
